---- MODULE Spec2Model ----
(***************************************************************************)
(* Process control plane of the cryogenic shaker firmware: relay driver,   *)
(* session manager, safety gate framework, machine state machine and the   *)
(* command dispatcher entries that reach them.                             *)
(*                                                                         *)
(* Environment assumptions: the I2C transactions of the relay driver       *)
(* succeed (both expanders present, driver initialised), NVS writes        *)
(* succeed, and no state-change callback is registered.  Time is kept as   *)
(* the ages (now - timestamp, in ms) of the timestamps the code stores;    *)
(* an age saturates just above the largest threshold it is compared with.  *)
(* Temperatures are kept as the x10 integers the float values are          *)
(* converted to.                                                           *)
(***************************************************************************)
EXTENDS Integers, Sequences, FiniteSets, TLC

(* ---------------- bounds of the model ---------------- *)
MaxSessionId == 1
MaxErrorCount == 3

\* bits are flipped in the first MaxFlipBytes bytes of a frame
MaxFlipBytes == 11

\* controller records read in a row by one operation (the code reads up to three)
MaxLockReads == 1

(* ---------------- machine_state.h ---------------- *)
MACHINE_STATE_IDLE == 0
MACHINE_STATE_PRECOOL == 1
MACHINE_STATE_RUNNING == 2
MACHINE_STATE_STOPPING == 3
MACHINE_STATE_E_STOP == 4
MACHINE_STATE_FAULT == 5
MACHINE_STATE_SERVICE == 6

RUN_MODE_NORMAL == 0
RUN_MODE_DRY_RUN == 1
RUN_MODE_PRECOOL_ONLY == 2

STOP_MODE_NORMAL == 0
STOP_MODE_ABORT == 1

INTERLOCK_BIT_ESTOP == 1
INTERLOCK_BIT_DOOR_OPEN == 2
INTERLOCK_BIT_LN2_ABSENT == 4
INTERLOCK_BIT_HMI_STALE == 16

DI_ESTOP == 1
DI_DOOR_CLOSED == 2
DI_LN2_PRESENT == 3

RO_MAIN_CONTACTOR == 1
RO_HEATER_1 == 2
RO_HEATER_2 == 3
RO_LN2_VALVE == 4
RO_DOOR_LOCK == 5
RO_CHAMBER_LIGHT == 6
\* used by machine_state.c, defined in no header under src/
RO_MOTOR_START == 7

RELAY_STATE_OFF == 0
RELAY_STATE_ON == 1
RELAY_STATE_TOGGLE == 2

(* ---------------- machine_state.c ---------------- *)
PRECOOL_TARGET_TEMP_X10 == -500
PRECOOL_TIMEOUT_MS == 300000
PRECOOL_TEMP_TOLERANCE_X10 == 50
STOPPING_SOAK_TIME_MS == 30000
CHAMBER_PID_ADDR == 1

(* ---------------- esp_err_t kinds returned by the components -------- *)
ESP_OK == "ESP_OK"
ESP_ERR_INVALID_ARG == "ESP_ERR_INVALID_ARG"
ESP_ERR_INVALID_STATE == "ESP_ERR_INVALID_STATE"
ESP_ERR_NOT_FOUND == "ESP_ERR_NOT_FOUND"
ESP_ERR_NOT_ALLOWED == "ESP_ERR_NOT_ALLOWED"

(* ---------------- wire_protocol.h ---------------- *)
CMD_SET_RELAY == 1
CMD_SET_RELAY_MASK == 2
CMD_CLEAR_LATCHED_ALARMS == 242
CMD_OPEN_SESSION == 256
CMD_KEEPALIVE == 257
CMD_START_RUN == 258
CMD_STOP_RUN == 259
CMD_ENABLE_SERVICE_MODE == 272
CMD_DISABLE_SERVICE_MODE == 273
CMD_CLEAR_ESTOP == 274

CMD_STATUS_OK == 0
CMD_STATUS_REJECTED_POLICY == 1
CMD_STATUS_INVALID_ARGS == 2
CMD_STATUS_BUSY == 3
CMD_STATUS_HW_FAULT == 4
CMD_STATUS_NOT_READY == 5

EVENT_ESTOP_ASSERTED == 4097
EVENT_ESTOP_CLEARED == 4098
EVENT_RUN_STARTED == 4608
EVENT_RUN_STOPPED == 4609
EVENT_RUN_ABORTED == 4610
EVENT_PRECOOL_COMPLETE == 4611
EVENT_STATE_CHANGED == 4612

EVENT_SEVERITY_INFO == 0
EVENT_SEVERITY_WARN == 1
EVENT_SEVERITY_ALARM == 2
EVENT_SEVERITY_CRITICAL == 3

(* ---------------- session_mgr.h ---------------- *)
SESSION_DEFAULT_LEASE_MS == 3000
SESSION_GRACE_PERIOD_MS == 500
SESSION_STATE_NONE == 0
SESSION_STATE_LIVE == 1
SESSION_STATE_STALE == 2

(* ---------------- safety_gate.h ---------------- *)
CAP_NOT_PRESENT == 0
CAP_OPTIONAL == 1
CAP_REQUIRED == 2

SUBSYS_PID1 == 0
SUBSYS_PID2 == 1
SUBSYS_PID3 == 2
SUBSYS_DI_ESTOP == 3
SUBSYS_DI_DOOR == 4
SUBSYS_DI_LN2 == 5
SUBSYS_DI_MOTOR == 6
SUBSYS_MAX == 7

GATE_ESTOP == 0
GATE_DOOR_CLOSED == 1
GATE_HMI_LIVE == 2
GATE_PID1_ONLINE == 3
GATE_PID2_ONLINE == 4
GATE_PID3_ONLINE == 5
GATE_PID1_NO_PROBE_ERR == 6
GATE_PID2_NO_PROBE_ERR == 7
GATE_PID3_NO_PROBE_ERR == 8
GATE_RESERVED == 9
GATE_MAX == 10

GATE_STATUS_PASSING == 0
GATE_STATUS_BLOCKING == 1
GATE_STATUS_BYPASSED == 2
GATE_STATUS_NA == 3

PROBE_ERROR_HIGH_THRESHOLD_X10 == 5000
PROBE_ERROR_LOW_THRESHOLD_X10 == -3000

(* ---------------- pid_controller.h ---------------- *)
PID_MAX_CONTROLLERS == 3

\* wire_protocol.h: ALARM_BIT_HMI_NOT_LIVE is (1 << 5); the bit position
ALARM_BIT_HMI_NOT_LIVE_POS == 5
PID_STATE_UNKNOWN == 0
PID_STATE_ONLINE == 1
PID_STATE_STALE == 2
PID_STATE_OFFLINE == 3

(* ---------------- bit arithmetic on C unsigned values ---------------- *)
Pow2(n) == 2 ^ n

Bit(x, i) == (x \div Pow2(i)) % 2

BitSet(x, i) == x + (1 - Bit(x, i)) * Pow2(i)

BitClear(x, i) == x - Bit(x, i) * Pow2(i)

BitToggle(x, i) == IF Bit(x, i) = 1 THEN BitClear(x, i) ELSE BitSet(x, i)

RECURSIVE MaskedBits(_, _, _, _)
\* (cur & ~mask) | (values & mask) on the low n bits
MaskedBits(cur, mask, values, n) ==
    IF n = 0 THEN 0
    ELSE LET i == n - 1
             b == IF Bit(mask, i) = 1 THEN Bit(values, i) ELSE Bit(cur, i)
         IN  b * Pow2(i) + MaskedBits(cur, mask, values, i)

\* conversion of an integer to int16_t
ToInt16(x) == ((x + 32768) % 65536) - 32768

Min(a, b) == IF a < b THEN a ELSE b

VARIABLES
    s_state,            \* machine_state.c: s_state
    s_run_mode,         \* machine_state.c: s_run_mode
    s_run_duration_ms,  \* machine_state.c: s_run_duration_ms
    s_target_temp_x10,  \* machine_state.c: s_target_temp_x10
    state_age,          \* ms since s_state_enter_us
    run_age,            \* ms since s_run_start_us, -1 when s_run_start_us = 0
    s_di_bits,          \* machine_state.c: cached digital inputs
    tick_pc,            \* state_task position: "read" or "body"
    s_relay_state,      \* relay_ctrl.c: cached output byte = output register
    s_session,          \* session_mgr.c: [state, session_id]
    ka_age,             \* ms since s_session.last_keepalive_us
    s_caps,             \* safety_gate.c: capability per subsystem
    s_gate_enable_mask, \* safety_gate.c: gate enable bits
    nvs,                \* persisted capability bytes, -1 = key absent
    s_controllers,      \* pid_controller.c: record per bus address
    s_alarm_bits,       \* telemetry.c: s_alarm_bits
    expiry_pc,          \* telemetry_task position in session_mgr_check_expiry: "idle" or "expired"
    events,             \* event frames emitted by the last operation
    effects,            \* machine_state.c: the calls the last operation made, in order
    last,               \* the last call and what it returned / acknowledged
    s_conn_handle,      \* ble_gatt.c: s_conn_handle
    s_events_indicate_subscribed,   \* ble_gatt.c: indications enabled on Events+Acks
    s_events_notify_subscribed,     \* ble_gatt.c: notifications enabled on Events+Acks
    s_tx_seq,           \* ble_gatt.c: s_tx_seq, sequence number of the next frame sent
    tx,                 \* frames handed to the BLE stack by the last command received
    rx,                 \* the bytes last written to the command characteristic
    s_bus_mutex,        \* modbus_master.c: s_bus_mutex, its holder or "free"
    mb_pc,              \* per task: position inside a modbus_* call and its function code
    mb_wait,            \* per task: ms spent blocked in xSemaphoreTake
    uart,               \* serial line: requests transmitted whose response wait has not ended
    current_idx,        \* pid_controller.c: poll_task's current_idx
    poll_log,           \* the controllers polled by the latest poll iterations, newest last
    poll_fails,         \* per controller: failed polls since its last successful poll
    relay_pc,           \* per task: its place in relay_ctrl_set / relay_ctrl_set_mask and its new_state
    wire_buf,           \* a frame buffer: its bytes, what they were built from, what was done to them
    wire_hdr,           \* what wire_parse_frame returned for wire_buf
    api_pc,             \* the machine_state call of the command task: where it is, its arguments
    s_mutex,            \* machine_state.c: s_mutex, its holder or "free"
    s_data_mutex,       \* pid_controller.c: s_data_mutex, its holder or "free"
    lock_pc             \* per task: the mutex calls of the operation it is in, and its place in them

vars == <<s_state, s_run_mode, s_run_duration_ms, s_target_temp_x10, state_age,
          run_age, s_di_bits, tick_pc, s_relay_state, s_session, ka_age,
          s_caps, s_gate_enable_mask, nvs, s_controllers, s_alarm_bits, expiry_pc,
          events, effects, last, s_conn_handle, s_events_indicate_subscribed,
          s_events_notify_subscribed, s_tx_seq, tx, rx, s_bus_mutex, mb_pc, mb_wait, uart,
          current_idx, poll_log, poll_fails, relay_pc, wire_buf, wire_hdr, api_pc,
          s_mutex, s_data_mutex, lock_pc>>

machineVars == <<s_state, s_run_mode, s_run_duration_ms, s_target_temp_x10,
                 state_age, run_age>>

gateVars == <<s_caps, s_gate_enable_mask, nvs>>

teleVars == <<s_alarm_bits, expiry_pc>>

bleVars == <<s_conn_handle, s_events_indicate_subscribed, s_events_notify_subscribed, s_tx_seq, tx, rx>>

busVars == <<s_bus_mutex, mb_pc, mb_wait, uart>>

\* positions and locals of the tasks that a specification takes step by step
taskVars == <<current_idx, poll_log, poll_fails, relay_pc, wire_buf, wire_hdr, api_pc,
              s_mutex, s_data_mutex, lock_pc>>

lockVars == <<s_mutex, s_data_mutex, lock_pc>>

(* ======================= relay_ctrl.c ======================= *)

\* relay_ctrl_set: the output byte after the call
relay_ctrl_set(relay, relay_index, state) ==
    IF relay_index < 1 \/ relay_index > 8 THEN relay
    ELSE IF state > 2 THEN relay
    ELSE CASE state = RELAY_STATE_OFF -> BitClear(relay, relay_index - 1)
           [] state = RELAY_STATE_ON -> BitSet(relay, relay_index - 1)
           [] state = RELAY_STATE_TOGGLE -> BitToggle(relay, relay_index - 1)

\* relay_ctrl_set_mask: the output byte after the call
relay_ctrl_set_mask(relay, mask, values) ==
    IF mask = 0 THEN relay ELSE MaskedBits(relay, mask, values, 8)

\* relay_ctrl_all_off -> relay_ctrl_set_all(0x00)
relay_ctrl_all_off(relay) == 0

RECURSIVE RelaySeq(_, _)
\* a run of relay_ctrl_set calls <<index, state>> applied in order
RelaySeq(relay, calls) ==
    IF calls = <<>> THEN relay
    ELSE RelaySeq(relay_ctrl_set(relay, Head(calls)[1], Head(calls)[2]), Tail(calls))

\* an entry of the record of what an operation did: the call, its two
\* arguments, and the output byte when the call returned
Effect(call, a, b, out) == [call |-> call, a |-> a, b |-> b, out |-> out]

RECURSIVE RelayLog(_, _)
\* the entries of a run of relay_ctrl_set calls made from output byte relay
RelayLog(relay, calls) ==
    IF calls = <<>> THEN <<>>
    ELSE LET out == relay_ctrl_set(relay, Head(calls)[1], Head(calls)[2])
         IN  << Effect("relay_ctrl_set", Head(calls)[1], Head(calls)[2], out) >>
             \o RelayLog(out, Tail(calls))

(* ======================= session_mgr.c ======================= *)

session_mgr_is_valid(session, session_id) ==
    session.state = SESSION_STATE_LIVE /\ session.session_id = session_id

session_mgr_is_live(session) == session.state = SESSION_STATE_LIVE

(* ======================= machine_state.c: input checks ======================= *)

\* check_estop_active reading the bit of the 1-based channel number
check_estop_active_shifted(di) == Bit(di, DI_ESTOP) = 0

\* E-Stop is active-LOW: DI1 LOW = pressed
check_estop_active(di) == Bit(di, DI_ESTOP - 1) = 0

\* check_door_open reading the bit of the 1-based channel number
check_door_open_shifted(di) == Bit(di, DI_DOOR_CLOSED) = 0

\* DI2 LOW = door open
check_door_open(di) == Bit(di, DI_DOOR_CLOSED - 1) = 0

\* always false: the soft starter has no fault output
check_motor_fault(di) == FALSE

\* DI3 HIGH = LN2 available
check_ln2_present(di) == Bit(di, DI_LN2_PRESENT - 1) # 0

machine_state_get_interlocks(di, session) ==
    (IF check_estop_active(di) THEN INTERLOCK_BIT_ESTOP ELSE 0)
    + (IF check_door_open(di) THEN INTERLOCK_BIT_DOOR_OPEN ELSE 0)
    + (IF ~check_ln2_present(di) THEN INTERLOCK_BIT_LN2_ABSENT ELSE 0)
    + (IF ~session_mgr_is_live(session) THEN INTERLOCK_BIT_HMI_STALE ELSE 0)

(* ======================= pid_controller.c: cache ======================= *)

\* pid_controller_get_by_addr with the default configuration {1, 2, 3}
pid_controller_get_by_addr(ctrls, addr) ==
    IF addr \in DOMAIN ctrls
    THEN [err |-> ESP_OK, ctrl |-> ctrls[addr]]
    ELSE [err |-> ESP_ERR_NOT_FOUND, ctrl |-> [state |-> PID_STATE_UNKNOWN, pv_x10 |-> 0, error_count |-> 0]]

poll_controller_unknown_offline(ctrl, ok, pv_x10) ==
    IF ~ok
    THEN LET n == Min(ctrl.error_count + 1, MaxErrorCount)
         IN  IF n >= 3
             THEN [ctrl EXCEPT !.error_count = n, !.state = PID_STATE_OFFLINE]
             ELSE IF ctrl.state = PID_STATE_ONLINE
                  THEN [ctrl EXCEPT !.error_count = n, !.state = PID_STATE_STALE]
                  ELSE [ctrl EXCEPT !.error_count = n]
    ELSE [state |-> PID_STATE_ONLINE, pv_x10 |-> pv_x10, error_count |-> 0]

\* poll_controller: the record after one poll; ok = both the register block read succeeded
poll_controller(ctrl, ok, pv_x10) ==
    IF ~ok
    THEN LET n == Min(ctrl.error_count + 1, MaxErrorCount)
         IN  IF n >= 3
             THEN IF ctrl.state = PID_STATE_ONLINE \/ ctrl.state = PID_STATE_STALE
                  THEN [ctrl EXCEPT !.error_count = n, !.state = PID_STATE_OFFLINE]
                  ELSE [ctrl EXCEPT !.error_count = n]
             ELSE IF ctrl.state = PID_STATE_ONLINE
                  THEN [ctrl EXCEPT !.error_count = n, !.state = PID_STATE_STALE]
                  ELSE [ctrl EXCEPT !.error_count = n]
    ELSE [state |-> PID_STATE_ONLINE, pv_x10 |-> pv_x10, error_count |-> 0]

(* ======================= safety_gate.c ======================= *)

\* s_default_caps
s_default_caps ==
    [i \in 0..(SUBSYS_MAX - 1) |->
        CASE i = SUBSYS_PID1 -> CAP_OPTIONAL
          [] i = SUBSYS_PID2 -> CAP_REQUIRED
          [] i = SUBSYS_PID3 -> CAP_REQUIRED
          [] i = SUBSYS_DI_ESTOP -> CAP_REQUIRED
          [] i = SUBSYS_DI_DOOR -> CAP_REQUIRED
          [] i = SUBSYS_DI_LN2 -> CAP_OPTIONAL
          [] i = SUBSYS_DI_MOTOR -> CAP_NOT_PRESENT]

\* load_capabilities_from_nvs: stored[i] = -1 when the key (or the namespace) is absent
load_capabilities_from_nvs(stored) ==
    [i \in 0..(SUBSYS_MAX - 1) |->
        IF i = SUBSYS_DI_ESTOP THEN CAP_REQUIRED
        ELSE IF stored[i] # -1 THEN stored[i]
        ELSE s_default_caps[i]]

safety_gate_pid_has_probe_error(ctrls, pid_id) ==
    IF pid_id < 1 \/ pid_id > 3 THEN FALSE
    ELSE LET r == pid_controller_get_by_addr(ctrls, pid_id)
         IN  IF r.err # ESP_OK THEN FALSE
             ELSE IF r.ctrl.state # PID_STATE_ONLINE /\ r.ctrl.state # PID_STATE_STALE THEN FALSE
             ELSE IF ToInt16(r.ctrl.pv_x10) >= PROBE_ERROR_HIGH_THRESHOLD_X10 THEN TRUE
             ELSE IF pid_id # 1 /\ ToInt16(r.ctrl.pv_x10) <= PROBE_ERROR_LOW_THRESHOLD_X10 THEN TRUE
             ELSE FALSE

PidOnlineCondition(ctrls, addr) ==
    LET r == pid_controller_get_by_addr(ctrls, addr)
    IN  IF r.err # ESP_OK THEN FALSE
        ELSE r.ctrl.state = PID_STATE_ONLINE \/ r.ctrl.state = PID_STATE_STALE

check_gate_condition(gate, di, session, ctrls) ==
    CASE gate = GATE_ESTOP ->
            Bit(machine_state_get_interlocks(di, session), 0) = 0
      [] gate = GATE_DOOR_CLOSED ->
            Bit(machine_state_get_interlocks(di, session), 1) = 0
      [] gate = GATE_HMI_LIVE -> session_mgr_is_live(session)
      [] gate = GATE_PID1_ONLINE -> PidOnlineCondition(ctrls, 1)
      [] gate = GATE_PID2_ONLINE -> PidOnlineCondition(ctrls, 2)
      [] gate = GATE_PID3_ONLINE -> PidOnlineCondition(ctrls, 3)
      [] gate = GATE_PID1_NO_PROBE_ERR -> ~safety_gate_pid_has_probe_error(ctrls, 1)
      [] gate = GATE_PID2_NO_PROBE_ERR -> ~safety_gate_pid_has_probe_error(ctrls, 2)
      [] gate = GATE_PID3_NO_PROBE_ERR -> ~safety_gate_pid_has_probe_error(ctrls, 3)
      [] OTHER -> TRUE

safety_gate_is_enabled(mask, gate) ==
    IF gate >= GATE_MAX THEN TRUE ELSE Bit(mask, gate) # 0

\* the subsystem whose capability makes a gate not applicable, SUBSYS_MAX if none
related_subsys(gate) ==
    CASE gate \in {GATE_PID1_ONLINE, GATE_PID1_NO_PROBE_ERR} -> SUBSYS_PID1
      [] gate \in {GATE_PID2_ONLINE, GATE_PID2_NO_PROBE_ERR} -> SUBSYS_PID2
      [] gate \in {GATE_PID3_ONLINE, GATE_PID3_NO_PROBE_ERR} -> SUBSYS_PID3
      [] gate = GATE_DOOR_CLOSED -> SUBSYS_DI_DOOR
      [] OTHER -> SUBSYS_MAX

\* safety_gate_check with the E-Stop gate bypassable like any other
safety_gate_check_bypass_any(gate, caps, mask, di, session, ctrls) ==
    IF gate >= GATE_MAX THEN GATE_STATUS_NA
    ELSE IF ~safety_gate_is_enabled(mask, gate) THEN GATE_STATUS_BYPASSED
    ELSE IF related_subsys(gate) < SUBSYS_MAX /\ caps[related_subsys(gate)] = CAP_NOT_PRESENT
         THEN GATE_STATUS_NA
    ELSE IF check_gate_condition(gate, di, session, ctrls) THEN GATE_STATUS_PASSING
    ELSE GATE_STATUS_BLOCKING

safety_gate_check(gate, caps, mask, di, session, ctrls) ==
    IF gate >= GATE_MAX THEN GATE_STATUS_NA
    ELSE IF gate # GATE_ESTOP /\ ~safety_gate_is_enabled(mask, gate) THEN GATE_STATUS_BYPASSED
    ELSE IF related_subsys(gate) < SUBSYS_MAX /\ caps[related_subsys(gate)] = CAP_NOT_PRESENT
         THEN GATE_STATUS_NA
    ELSE IF check_gate_condition(gate, di, session, ctrls) THEN GATE_STATUS_PASSING
    ELSE GATE_STATUS_BLOCKING

RECURSIVE PidGatesFrom_not_absent(_, _, _, _, _, _)
\* the controller loop of safety_gate_can_start_run checking every fitted
\* controller, OPTIONAL ones included
PidGatesFrom_not_absent(pid_id, caps, mask, di, session, ctrls) ==
    IF pid_id > 3 THEN -1
    ELSE IF caps[SUBSYS_PID1 + (pid_id - 1)] = CAP_NOT_PRESENT
         THEN PidGatesFrom_not_absent(pid_id + 1, caps, mask, di, session, ctrls)
    ELSE IF safety_gate_check(GATE_PID1_ONLINE + (pid_id - 1), caps, mask, di, session, ctrls)
                = GATE_STATUS_BLOCKING
         THEN GATE_PID1_ONLINE + (pid_id - 1)
    ELSE IF safety_gate_check(GATE_PID1_NO_PROBE_ERR + (pid_id - 1), caps, mask, di, session, ctrls)
                = GATE_STATUS_BLOCKING
         THEN GATE_PID1_NO_PROBE_ERR + (pid_id - 1)
    ELSE PidGatesFrom_not_absent(pid_id + 1, caps, mask, di, session, ctrls)

RECURSIVE PidGatesFrom(_, _, _, _, _, _)
\* the for loop of safety_gate_can_start_run from pid_id on: blocking gate or -1
PidGatesFrom(pid_id, caps, mask, di, session, ctrls) ==
    IF pid_id > 3 THEN -1
    ELSE IF caps[SUBSYS_PID1 + (pid_id - 1)] # CAP_REQUIRED
         THEN PidGatesFrom(pid_id + 1, caps, mask, di, session, ctrls)
    ELSE IF safety_gate_check(GATE_PID1_ONLINE + (pid_id - 1), caps, mask, di, session, ctrls)
                = GATE_STATUS_BLOCKING
         THEN GATE_PID1_ONLINE + (pid_id - 1)
    ELSE IF safety_gate_check(GATE_PID1_NO_PROBE_ERR + (pid_id - 1), caps, mask, di, session, ctrls)
                = GATE_STATUS_BLOCKING
         THEN GATE_PID1_NO_PROBE_ERR + (pid_id - 1)
    ELSE PidGatesFrom(pid_id + 1, caps, mask, di, session, ctrls)

\* safety_gate_can_start_run: *out_blocking_gate, -1 when the start is allowed
safety_gate_can_start_run(caps, mask, di, session, ctrls) ==
    IF safety_gate_check(GATE_ESTOP, caps, mask, di, session, ctrls) = GATE_STATUS_BLOCKING
    THEN GATE_ESTOP
    ELSE IF caps[SUBSYS_DI_DOOR] # CAP_NOT_PRESENT
            /\ safety_gate_check(GATE_DOOR_CLOSED, caps, mask, di, session, ctrls) = GATE_STATUS_BLOCKING
    THEN GATE_DOOR_CLOSED
    ELSE IF safety_gate_check(GATE_HMI_LIVE, caps, mask, di, session, ctrls) = GATE_STATUS_BLOCKING
    THEN GATE_HMI_LIVE
    ELSE PidGatesFrom(1, caps, mask, di, session, ctrls)

\* machine_state_start_allowed that never consults the safety gate
machine_state_start_allowed_always(caps, mask, di, session, ctrls) == TRUE

machine_state_start_allowed(caps, mask, di, session, ctrls) ==
    safety_gate_can_start_run(caps, mask, di, session, ctrls) = -1

(* ======================= machine_state.c: state machine ======================= *)
(* The operators below work on a record m of the fields a handler may      *)
(* change: state, relay (the output byte), state_age, run_age, run_mode,   *)
(* target, duration, events (the event frames handed to the transport) and *)
(* log (the relay, callback and emit calls made, in the order made).       *)

\* set_outputs_safe switching the contactor off before motor-start
SafeCalls_contactor_first ==
    << <<RO_MAIN_CONTACTOR, RELAY_STATE_OFF>>, <<RO_MOTOR_START, RELAY_STATE_OFF>>,
       <<RO_HEATER_1, RELAY_STATE_OFF>>, <<RO_HEATER_2, RELAY_STATE_OFF>>,
       <<RO_LN2_VALVE, RELAY_STATE_OFF>>, <<RO_DOOR_LOCK, RELAY_STATE_OFF>> >>

\* set_outputs_safe: the relay_ctrl_set calls it makes, in order
SafeCalls ==
    << <<RO_MOTOR_START, RELAY_STATE_OFF>>, <<RO_MAIN_CONTACTOR, RELAY_STATE_OFF>>,
       <<RO_HEATER_1, RELAY_STATE_OFF>>, <<RO_HEATER_2, RELAY_STATE_OFF>>,
       <<RO_LN2_VALVE, RELAY_STATE_OFF>>, <<RO_DOOR_LOCK, RELAY_STATE_OFF>> >>

set_outputs_safe(relay) == RelaySeq(relay, SafeCalls)

\* the entry actions with a STOPPING entry that leaves motor-start as it is
EntryCalls_stopping_keeps_motor(new_state) ==
    CASE new_state \in {MACHINE_STATE_IDLE, MACHINE_STATE_E_STOP, MACHINE_STATE_FAULT} -> SafeCalls
      [] new_state = MACHINE_STATE_PRECOOL ->
            << <<RO_DOOR_LOCK, RELAY_STATE_ON>>, <<RO_LN2_VALVE, RELAY_STATE_ON>>,
               <<RO_HEATER_1, RELAY_STATE_ON>>, <<RO_HEATER_2, RELAY_STATE_ON>>,
               <<RO_MAIN_CONTACTOR, RELAY_STATE_ON>> >>
      [] new_state = MACHINE_STATE_RUNNING -> << <<RO_MOTOR_START, RELAY_STATE_ON>> >>
      [] new_state = MACHINE_STATE_STOPPING ->
            << <<RO_HEATER_1, RELAY_STATE_OFF>>, <<RO_HEATER_2, RELAY_STATE_OFF>>,
               <<RO_LN2_VALVE, RELAY_STATE_OFF>> >>
      [] OTHER -> << >>

\* transition_to: the relay_ctrl_set calls of the entry action of new_state
EntryCalls(new_state) ==
    CASE new_state = MACHINE_STATE_IDLE -> SafeCalls
      [] new_state = MACHINE_STATE_PRECOOL ->
            << <<RO_DOOR_LOCK, RELAY_STATE_ON>>, <<RO_LN2_VALVE, RELAY_STATE_ON>>,
               <<RO_HEATER_1, RELAY_STATE_ON>>, <<RO_HEATER_2, RELAY_STATE_ON>>,
               <<RO_MAIN_CONTACTOR, RELAY_STATE_ON>> >>
      [] new_state = MACHINE_STATE_RUNNING -> << <<RO_MOTOR_START, RELAY_STATE_ON>> >>
      [] new_state = MACHINE_STATE_STOPPING ->
            << <<RO_MOTOR_START, RELAY_STATE_OFF>>, <<RO_HEATER_1, RELAY_STATE_OFF>>,
               <<RO_HEATER_2, RELAY_STATE_OFF>>, <<RO_LN2_VALVE, RELAY_STATE_OFF>> >>
      [] new_state = MACHINE_STATE_E_STOP -> SafeCalls
      [] new_state = MACHINE_STATE_FAULT -> SafeCalls
      [] OTHER -> << >>

\* emit_state_change_event: severity by new state, payload old then new
emit_state_change_event(old_state, new_state) ==
    << EVENT_STATE_CHANGED,
       IF new_state = MACHINE_STATE_E_STOP THEN EVENT_SEVERITY_CRITICAL
       ELSE IF new_state = MACHINE_STATE_FAULT THEN EVENT_SEVERITY_ALARM
       ELSE IF new_state = MACHINE_STATE_STOPPING THEN EVENT_SEVERITY_WARN
       ELSE EVENT_SEVERITY_INFO,
       <<old_state, new_state>> >>

\* transition_to: the events for key transitions, after the state-changed event
SpecificEvents(old_state, new_state) ==
    (IF new_state = MACHINE_STATE_E_STOP
     THEN << <<EVENT_ESTOP_ASSERTED, EVENT_SEVERITY_CRITICAL, << >> >> >>
     ELSE IF old_state = MACHINE_STATE_E_STOP /\ new_state = MACHINE_STATE_IDLE
     THEN << <<EVENT_ESTOP_CLEARED, EVENT_SEVERITY_INFO, << >> >> >>
     ELSE << >>)
    \o
    (IF old_state = MACHINE_STATE_IDLE /\ new_state = MACHINE_STATE_PRECOOL
     THEN << <<EVENT_RUN_STARTED, EVENT_SEVERITY_INFO, << >> >> >>
     ELSE IF old_state = MACHINE_STATE_PRECOOL /\ new_state = MACHINE_STATE_RUNNING
     THEN << <<EVENT_PRECOOL_COMPLETE, EVENT_SEVERITY_INFO, << >> >> >>
     ELSE IF new_state = MACHINE_STATE_IDLE
             /\ (old_state = MACHINE_STATE_STOPPING \/ old_state = MACHINE_STATE_RUNNING)
     THEN << <<EVENT_RUN_STOPPED, EVENT_SEVERITY_INFO, << >> >> >>
     ELSE IF (new_state = MACHINE_STATE_FAULT \/ new_state = MACHINE_STATE_E_STOP)
             /\ (old_state = MACHINE_STATE_RUNNING \/ old_state = MACHINE_STATE_PRECOOL)
     THEN << <<EVENT_RUN_ABORTED, EVENT_SEVERITY_ALARM, << >> >> >>
     ELSE << >>)

\* transition_to emitting the events before the entry action and the callback
transition_to_events_first(m, new_state) ==
    IF m.state = new_state THEN m
    ELSE LET relay == RelaySeq(m.relay, EntryCalls(new_state))
             emitted == << emit_state_change_event(m.state, new_state) >>
                        \o SpecificEvents(m.state, new_state)
         IN  [m EXCEPT !.state = new_state,
                       !.state_age = 0,
                       !.relay = relay,
                       !.run_age = IF new_state = MACHINE_STATE_IDLE THEN -1 ELSE m.run_age,
                       !.events = m.events \o emitted,
                       !.log = m.log
                               \o << Effect("transition_to", m.state, new_state, m.relay) >>
                               \o [i \in 1..Len(emitted) |->
                                      Effect("emit_event", emitted[i][1], emitted[i][2], m.relay)]
                               \o RelayLog(m.relay, EntryCalls(new_state))
                               \o << Effect("state_callback", m.state, new_state, relay) >>]

\* transition_to: the entry action of new_state, the state-change callback
\* (invoked if one is registered), the state-changed event and the events
\* for key transitions
transition_to(m, new_state) ==
    IF m.state = new_state THEN m
    ELSE LET relay == RelaySeq(m.relay, EntryCalls(new_state))
             emitted == << emit_state_change_event(m.state, new_state) >>
                        \o SpecificEvents(m.state, new_state)
         IN  [m EXCEPT !.state = new_state,
                       !.state_age = 0,
                       !.relay = relay,
                       !.run_age = IF new_state = MACHINE_STATE_IDLE THEN -1 ELSE m.run_age,
                       !.events = m.events \o emitted,
                       !.log = m.log
                               \o << Effect("transition_to", m.state, new_state, m.relay) >>
                               \o RelayLog(m.relay, EntryCalls(new_state))
                               \o << Effect("state_callback", m.state, new_state, relay) >>
                               \o [i \in 1..Len(emitted) |->
                                      Effect("emit_event", emitted[i][1], emitted[i][2], relay)]]

\* get_chamber_temp: [valid, temp_x10]
get_chamber_temp(ctrls) ==
    LET r == pid_controller_get_by_addr(ctrls, CHAMBER_PID_ADDR)
    IN  IF r.err # ESP_OK THEN [valid |-> FALSE, temp_x10 |-> 0]
        ELSE IF r.ctrl.state # PID_STATE_ONLINE THEN [valid |-> FALSE, temp_x10 |-> 0]
        ELSE [valid |-> TRUE, temp_x10 |-> ToInt16(r.ctrl.pv_x10)]

\* state_task, case MACHINE_STATE_PRECOOL without the timeout
PrecoolLogic_no_timeout(m, ctrls) ==
    LET t == get_chamber_temp(ctrls)
        d == ToInt16(t.temp_x10 - m.target)
        temp_diff == IF d < 0 THEN ToInt16(-d) ELSE d
        next_state == IF m.run_mode = RUN_MODE_PRECOOL_ONLY
                      THEN MACHINE_STATE_STOPPING ELSE MACHINE_STATE_RUNNING
    IN  IF t.valid /\ temp_diff <= PRECOOL_TEMP_TOLERANCE_X10 THEN transition_to(m, next_state)
        ELSE m

\* state_task, case MACHINE_STATE_PRECOOL
PrecoolLogic(m, ctrls) ==
    LET t == get_chamber_temp(ctrls)
        d == ToInt16(t.temp_x10 - m.target)
        temp_diff == IF d < 0 THEN ToInt16(-d) ELSE d
        next_state == IF m.run_mode = RUN_MODE_PRECOOL_ONLY
                      THEN MACHINE_STATE_STOPPING ELSE MACHINE_STATE_RUNNING
    IN  IF t.valid /\ temp_diff <= PRECOOL_TEMP_TOLERANCE_X10 THEN transition_to(m, next_state)
        ELSE IF m.state_age > PRECOOL_TIMEOUT_MS THEN transition_to(m, next_state)
        ELSE m

\* state_task, case MACHINE_STATE_RUNNING without the run duration check
RunningLogic_no_duration(m, session) ==
    IF ~session_mgr_is_live(session) THEN transition_to(m, MACHINE_STATE_STOPPING) ELSE m

\* state_task, case MACHINE_STATE_RUNNING
RunningLogic(m, session) ==
    LET m1 == IF m.duration > 0 /\ m.run_age >= m.duration
              THEN transition_to(m, MACHINE_STATE_STOPPING) ELSE m
    IN  IF ~session_mgr_is_live(session) THEN transition_to(m1, MACHINE_STATE_STOPPING) ELSE m1

\* state_task, case MACHINE_STATE_STOPPING, without the soak period
StoppingLogic_no_soak(m) == transition_to(m, MACHINE_STATE_IDLE)

\* state_task, case MACHINE_STATE_STOPPING
StoppingLogic(m) ==
    IF m.state_age > STOPPING_SOAK_TIME_MS THEN transition_to(m, MACHINE_STATE_IDLE) ELSE m

\* state_task with a PRECOOL case that stops the run when the HMI is not live
tick_body_precool_watches_hmi(m, di, session, ctrls) ==
    LET m1 == IF check_estop_active(di) /\ m.state # MACHINE_STATE_E_STOP
              THEN transition_to(m, MACHINE_STATE_E_STOP) ELSE m
        m3 == IF check_door_open(di)
                 /\ (m1.state = MACHINE_STATE_RUNNING \/ m1.state = MACHINE_STATE_PRECOOL)
              THEN transition_to(m1, MACHINE_STATE_FAULT) ELSE m1
    IN  CASE m3.state = MACHINE_STATE_PRECOOL ->
                IF ~session_mgr_is_live(session) THEN transition_to(m3, MACHINE_STATE_STOPPING)
                ELSE PrecoolLogic(m3, ctrls)
          [] m3.state = MACHINE_STATE_RUNNING -> RunningLogic(m3, session)
          [] m3.state = MACHINE_STATE_STOPPING -> StoppingLogic(m3)
          [] OTHER -> m3

\* state_task: the loop body under the state mutex, after update_di_bits
tick_body(m, di, session, ctrls) ==
    LET m1 == IF check_estop_active(di) /\ m.state # MACHINE_STATE_E_STOP
              THEN transition_to(m, MACHINE_STATE_E_STOP) ELSE m
        m2 == IF check_motor_fault(di)
                 /\ m1.state \notin {MACHINE_STATE_E_STOP, MACHINE_STATE_FAULT,
                                      MACHINE_STATE_IDLE, MACHINE_STATE_SERVICE}
              THEN transition_to(m1, MACHINE_STATE_FAULT) ELSE m1
        m3 == IF check_door_open(di)
                 /\ (m2.state = MACHINE_STATE_RUNNING \/ m2.state = MACHINE_STATE_PRECOOL)
              THEN transition_to(m2, MACHINE_STATE_FAULT) ELSE m2
    IN  CASE m3.state = MACHINE_STATE_PRECOOL -> PrecoolLogic(m3, ctrls)
          [] m3.state = MACHINE_STATE_RUNNING -> RunningLogic(m3, session)
          [] m3.state = MACHINE_STATE_STOPPING -> StoppingLogic(m3)
          [] OTHER -> m3

\* machine_state_start_run without the check that the state is IDLE
machine_state_start_run_any_state(m, session_id, mode, target_temp_x10, run_duration_ms, session, caps, mask, di, ctrls) ==
    IF ~session_mgr_is_valid(session, session_id) THEN [ret |-> ESP_ERR_INVALID_ARG, m |-> m]
    ELSE IF ~(safety_gate_can_start_run(caps, mask, di, session, ctrls) = -1)
         THEN [ret |-> ESP_ERR_NOT_ALLOWED, m |-> m]
    ELSE [ret |-> ESP_OK,
          m |-> transition_to(
                  [m EXCEPT !.run_mode = mode,
                            !.target = IF target_temp_x10 # 0 THEN target_temp_x10
                                       ELSE PRECOOL_TARGET_TEMP_X10,
                            !.duration = run_duration_ms,
                            !.run_age = 0],
                  MACHINE_STATE_PRECOOL)]

\* machine_state_start_run between xSemaphoreTake and xSemaphoreGive
start_run_locked(m, mode, target_temp_x10, run_duration_ms, session, caps, mask, di, ctrls) ==
    IF m.state # MACHINE_STATE_IDLE THEN [ret |-> ESP_ERR_INVALID_STATE, m |-> m]
    ELSE IF ~machine_state_start_allowed(caps, mask, di, session, ctrls)
         THEN [ret |-> ESP_ERR_NOT_ALLOWED, m |-> m]
    ELSE [ret |-> ESP_OK,
          m |-> transition_to(
                  [m EXCEPT !.run_mode = mode,
                            !.target = IF target_temp_x10 # 0 THEN target_temp_x10
                                       ELSE PRECOOL_TARGET_TEMP_X10,
                            !.duration = run_duration_ms,
                            !.run_age = 0],
                  MACHINE_STATE_PRECOOL)]

\* machine_state_start_run: [ret, m]; the session is looked at before xSemaphoreTake
machine_state_start_run(m, session_id, mode, target_temp_x10, run_duration_ms, session, caps, mask, di, ctrls) ==
    IF ~session_mgr_is_valid(session, session_id) THEN [ret |-> ESP_ERR_INVALID_ARG, m |-> m]
    ELSE start_run_locked(m, mode, target_temp_x10, run_duration_ms, session, caps, mask, di, ctrls)

\* machine_state_stop_run with the two stop modes exchanged
machine_state_stop_run_swapped(m, session_id, mode, session) ==
    IF ~session_mgr_is_valid(session, session_id) THEN [ret |-> ESP_ERR_INVALID_ARG, m |-> m]
    ELSE IF m.state # MACHINE_STATE_PRECOOL /\ m.state # MACHINE_STATE_RUNNING
         THEN [ret |-> ESP_ERR_INVALID_STATE, m |-> m]
    ELSE IF mode # STOP_MODE_ABORT
         THEN [ret |-> ESP_OK,
               m |-> transition_to([m EXCEPT !.relay = set_outputs_safe(m.relay),
                                            !.log = @ \o RelayLog(m.relay, SafeCalls)],
                                   MACHINE_STATE_IDLE)]
    ELSE [ret |-> ESP_OK, m |-> transition_to(m, MACHINE_STATE_STOPPING)]

\* machine_state_stop_run without the look at the state
machine_state_stop_run_any_state(m, session_id, mode, session) ==
    IF ~session_mgr_is_valid(session, session_id) THEN [ret |-> ESP_ERR_INVALID_ARG, m |-> m]
    ELSE IF mode = STOP_MODE_ABORT
         THEN [ret |-> ESP_OK,
               m |-> transition_to([m EXCEPT !.relay = set_outputs_safe(m.relay),
                                            !.log = @ \o RelayLog(m.relay, SafeCalls)],
                                   MACHINE_STATE_IDLE)]
    ELSE [ret |-> ESP_OK, m |-> transition_to(m, MACHINE_STATE_STOPPING)]

\* machine_state_stop_run between xSemaphoreTake and xSemaphoreGive
stop_run_locked(m, mode) ==
    IF m.state # MACHINE_STATE_PRECOOL /\ m.state # MACHINE_STATE_RUNNING
    THEN [ret |-> ESP_ERR_INVALID_STATE, m |-> m]
    ELSE IF mode = STOP_MODE_ABORT
         THEN [ret |-> ESP_OK,
               m |-> transition_to([m EXCEPT !.relay = set_outputs_safe(m.relay),
                                            !.log = @ \o RelayLog(m.relay, SafeCalls)],
                                   MACHINE_STATE_IDLE)]
    ELSE [ret |-> ESP_OK, m |-> transition_to(m, MACHINE_STATE_STOPPING)]

\* machine_state_stop_run: [ret, m]; the session is looked at before xSemaphoreTake
machine_state_stop_run(m, session_id, mode, session) ==
    IF ~session_mgr_is_valid(session, session_id) THEN [ret |-> ESP_ERR_INVALID_ARG, m |-> m]
    ELSE stop_run_locked(m, mode)

\* machine_state_enter_service: [ret, m]
machine_state_enter_service(m, session_id, session) ==
    IF ~session_mgr_is_valid(session, session_id) THEN [ret |-> ESP_ERR_INVALID_ARG, m |-> m]
    ELSE IF m.state # MACHINE_STATE_IDLE THEN [ret |-> ESP_ERR_INVALID_STATE, m |-> m]
    ELSE [ret |-> ESP_OK, m |-> transition_to(m, MACHINE_STATE_SERVICE)]

\* machine_state_exit_service without relay_ctrl_all_off
machine_state_exit_service_keep_relays(m, session_id, session) ==
    IF ~session_mgr_is_valid(session, session_id) THEN [ret |-> ESP_ERR_INVALID_ARG, m |-> m]
    ELSE IF m.state # MACHINE_STATE_SERVICE THEN [ret |-> ESP_ERR_INVALID_STATE, m |-> m]
    ELSE [ret |-> ESP_OK, m |-> transition_to(m, MACHINE_STATE_IDLE)]

\* machine_state_exit_service: [ret, m]
machine_state_exit_service(m, session_id, session) ==
    IF ~session_mgr_is_valid(session, session_id) THEN [ret |-> ESP_ERR_INVALID_ARG, m |-> m]
    ELSE IF m.state # MACHINE_STATE_SERVICE THEN [ret |-> ESP_ERR_INVALID_STATE, m |-> m]
    ELSE [ret |-> ESP_OK,
          m |-> transition_to([m EXCEPT !.relay = relay_ctrl_all_off(m.relay),
                                       !.log = @ \o << Effect("relay_ctrl_all_off", 0, 0, 0) >>],
                              MACHINE_STATE_IDLE)]

\* machine_state_clear_estop without the look at the E-Stop input
machine_state_clear_estop_unchecked(m, session_id, session, di) ==
    IF ~session_mgr_is_valid(session, session_id) THEN [ret |-> ESP_ERR_INVALID_ARG, m |-> m]
    ELSE IF m.state # MACHINE_STATE_E_STOP THEN [ret |-> ESP_ERR_INVALID_STATE, m |-> m]
    ELSE [ret |-> ESP_OK, m |-> transition_to(m, MACHINE_STATE_IDLE)]

\* machine_state_clear_estop: [ret, m]
machine_state_clear_estop(m, session_id, session, di) ==
    IF ~session_mgr_is_valid(session, session_id) THEN [ret |-> ESP_ERR_INVALID_ARG, m |-> m]
    ELSE IF m.state # MACHINE_STATE_E_STOP THEN [ret |-> ESP_ERR_INVALID_STATE, m |-> m]
    ELSE IF check_estop_active(di) THEN [ret |-> ESP_ERR_INVALID_STATE, m |-> m]
    ELSE [ret |-> ESP_OK, m |-> transition_to(m, MACHINE_STATE_IDLE)]

\* machine_state_clear_fault: [ret, m]
machine_state_clear_fault(m, session_id, session, di) ==
    IF ~session_mgr_is_valid(session, session_id) THEN [ret |-> ESP_ERR_INVALID_ARG, m |-> m]
    ELSE IF m.state # MACHINE_STATE_FAULT THEN [ret |-> ESP_ERR_INVALID_STATE, m |-> m]
    ELSE IF check_motor_fault(di) THEN [ret |-> ESP_ERR_INVALID_STATE, m |-> m]
    ELSE [ret |-> ESP_OK, m |-> transition_to(m, MACHINE_STATE_IDLE)]

\* machine_state_force_safe
machine_state_force_safe(m) ==
    transition_to([m EXCEPT !.relay = set_outputs_safe(m.relay),
                                            !.log = @ \o RelayLog(m.relay, SafeCalls)], MACHINE_STATE_FAULT)

(* ======================= inputs drawn by the actions ======================= *)

\* input port pins: DI3 (LN2) high, DI4..DI8 low; DI1 (E-Stop) and DI2 (door) vary
DIValues == {7, 6, 5, 4}

SessionIds == 1..MaxSessionId

\* session id field of a command: 0 is never issued
SessionIdArgs == 0..MaxSessionId

RunModes == {RUN_MODE_NORMAL, RUN_MODE_PRECOOL_ONLY}

StopModes == {STOP_MODE_NORMAL, STOP_MODE_ABORT}

\* process values (x10) a controller reports: at the precool target, ambient, over-range
PvValues == {-500, 200}

NoCall == [op |-> "none", cmd |-> -1, ret |-> ESP_OK, status |-> -1, detail |-> 0, body |-> << >>]

Call(op, ret) == [op |-> op, cmd |-> -1, ret |-> ret, status |-> -1, detail |-> 0, body |-> << >>]

\* send_ack: the acknowledgment of a command
Ack(op, cmd, ret, status, detail, body) ==
    [op |-> op, cmd |-> cmd, ret |-> ret, status |-> status, detail |-> detail, body |-> body]

(* ======================= the state as the record the operators use ============ *)

M == [state |-> s_state, relay |-> s_relay_state, state_age |-> state_age, run_age |-> run_age,
      run_mode |-> s_run_mode, target |-> s_target_temp_x10, duration |-> s_run_duration_ms,
      events |-> << >>, log |-> << >>]

Commit(m) ==
    /\ s_state' = m.state
    /\ s_relay_state' = m.relay
    /\ state_age' = m.state_age
    /\ run_age' = m.run_age
    /\ s_run_mode' = m.run_mode
    /\ s_target_temp_x10' = m.target
    /\ s_run_duration_ms' = m.duration
    /\ events' = m.events
    /\ effects' = m.log

(* ======================= Init: the state after bring-up ======================= *)

\* capability bytes in flash of a unit never configured: no key stored
FactoryImage == [i \in 0..(SUBSYS_MAX - 1) |-> -1]

\* capability bytes in flash of a unit whose two heater controllers were saved
\* as not fitted (only the chamber controller on the bus)
BenchImage ==
    [i \in 0..(SUBSYS_MAX - 1) |-> IF i \in {SUBSYS_PID2, SUBSYS_PID3} THEN CAP_NOT_PRESENT ELSE -1]

NoSession == [state |-> SESSION_STATE_NONE, session_id |-> 0]

\* the result of a builder that returned length 0: no bytes
NoFrame == << >>

\* no connection (NimBLE's BLE_HS_CONN_HANDLE_NONE, 0xFFFF)
BLE_HS_CONN_HANDLE_NONE == 65535

\* the tasks that call the modbus_* functions: the poller (poll_task) and the
\* NimBLE host task running handle_command
\* the command task is in no machine_state call
NoApiCall == [at |-> "idle", op |-> "none", session_id |-> 0, mode |-> 0]

\* wire_parse_frame not called on the buffer yet
NoHeader == [ok |-> FALSE, msg_type |-> -1, seq |-> -1, payload_len |-> -1, payload |-> << >>]

\* the tasks that call relay_ctrl: state_task (entry actions) and the command dispatcher
RelayTasks == {"state_task", "dispatcher"}

BusTasks == {"poll_task", "nimble_host"}

\* the tasks that take a mutex: state_task (machine_state.c:627), telemetry_task
\* (telemetry.c:83), poll_task (pid_controller.c:130), the NimBLE host task (handle_command)
LockTasks == {"state_task", "telemetry_task", "poll_task", "nimble_host"}

\* a task outside every function that takes a mutex
NoLockCall == [path |-> << >>, i |-> 0, waited |-> 0]

\* ble_gatt.c statics and modbus_master_init: no client, nothing sent, bus free
LinkBoot ==
    /\ s_conn_handle = BLE_HS_CONN_HANDLE_NONE
    /\ s_events_indicate_subscribed = FALSE
    /\ s_events_notify_subscribed = FALSE
    /\ s_tx_seq = 0
    /\ tx = << >>
    /\ rx = NoFrame
    /\ s_bus_mutex = "free"
    /\ mb_pc = [t \in BusTasks |-> [at |-> "idle", fc |-> 0]]
    /\ mb_wait = [t \in BusTasks |-> 0]
    /\ uart = {}
    /\ current_idx = 0
    /\ poll_log = << >>
    /\ poll_fails = [a \in 1..PID_MAX_CONTROLLERS |-> 0]
    /\ relay_pc = [t \in RelayTasks |-> [at |-> "idle", mask |-> 0, new_state |-> 0]]
    /\ wire_buf = [bytes |-> << >>, msg_type |-> 0, seq |-> 0, payload |-> << >>, made |-> "empty"]
    /\ wire_hdr = NoHeader
    /\ api_pc = NoApiCall
    /\ s_mutex = "free"
    /\ s_data_mutex = "free"
    /\ lock_pc = [t \in LockTasks |-> NoLockCall]

\* the state after app start-up with the capability bytes image in flash:
\* machine_state_init, relay_ctrl_init, session_mgr_init, safety_gate_init, pid_controller_init
Boot(image) ==
    /\ s_di_bits \in DIValues
    /\ s_state = IF check_estop_active(s_di_bits) THEN MACHINE_STATE_E_STOP ELSE MACHINE_STATE_IDLE
    /\ s_run_mode = RUN_MODE_NORMAL
    /\ s_run_duration_ms = 0
    /\ s_target_temp_x10 = 0
    /\ state_age = 0
    /\ run_age = -1
    /\ tick_pc = "read"
    /\ s_relay_state = 0
    /\ s_session = NoSession
    /\ ka_age = 0
    /\ nvs = image
    /\ s_caps = load_capabilities_from_nvs(nvs)
    /\ s_gate_enable_mask = 65535
    /\ s_controllers = [a \in 1..PID_MAX_CONTROLLERS |->
                            [state |-> PID_STATE_UNKNOWN, pv_x10 |-> 0, error_count |-> 0]]
    /\ events = << >>
    /\ effects = << >>
    /\ s_alarm_bits = 0
    /\ expiry_pc = "idle"
    /\ last = NoCall
    /\ LinkBoot

Init == Boot(BenchImage)

\* the boot with the E-Stop released and the door closed: where the tasks that
\* never look at the digital inputs (framing, polling, the buses, the mutexes)
\* are followed from
InitInterlocksClear == Init /\ ~check_estop_active(s_di_bits) /\ ~check_door_open(s_di_bits)

(* ======================= environment ======================= *)

\* time passes by one period of the timer the current state waits on; the
\* ages saturate just past the limit they are compared with
Advance ==
    LET d == IF s_state = MACHINE_STATE_PRECOOL THEN PRECOOL_TIMEOUT_MS ELSE STOPPING_SOAK_TIME_MS
    IN  /\ state_age' = IF s_state = MACHINE_STATE_PRECOOL
                        THEN Min(state_age + d, PRECOOL_TIMEOUT_MS + 1)
                        ELSE IF s_state = MACHINE_STATE_STOPPING
                        THEN Min(state_age + d, STOPPING_SOAK_TIME_MS + 1)
                        ELSE state_age
        /\ run_age' = IF run_age = -1 THEN -1 ELSE Min(run_age + d, s_run_duration_ms)
        /\ ka_age' = IF s_session.state = SESSION_STATE_LIVE
                     THEN Min(ka_age + d, SESSION_DEFAULT_LEASE_MS + SESSION_GRACE_PERIOD_MS + 1)
                     ELSE ka_age
        /\ <<state_age', run_age', ka_age'>> # <<state_age, run_age, ka_age>>
        /\ UNCHANGED <<s_state, s_run_mode, s_run_duration_ms, s_target_temp_x10, s_di_bits,
                       tick_pc, s_relay_state, s_session, gateVars, s_controllers, events, effects, last, teleVars, bleVars, busVars, taskVars>>

(* ======================= state task ======================= *)

\* state_task: update_di_bits() at the top of the loop, outside the state mutex;
\* v is the byte relay_ctrl_read_di reads from the input port
UpdateDI(v) ==
    /\ tick_pc = "read"
    /\ s_di_bits' = v
    /\ tick_pc' = "body"
    /\ UNCHANGED <<machineVars, s_relay_state, s_session, ka_age, gateVars,
                   s_controllers, events, effects, last, teleVars, bleVars, busVars, taskVars>>

\* state_task: the rest of the loop body, under the state mutex
TickBody ==
    /\ tick_pc = "body"
    /\ Commit(tick_body(M, s_di_bits, s_session, s_controllers))
    /\ tick_pc' = "read"
    /\ last' = Call("tick", ESP_OK)
    /\ UNCHANGED <<s_di_bits, s_session, ka_age, gateVars, s_controllers, teleVars, bleVars, busVars, taskVars>>

\* machine_state_force_safe
ForceSafe ==
    /\ Commit(machine_state_force_safe(M))
    /\ last' = Call("force_safe", ESP_OK)
    /\ UNCHANGED <<s_di_bits, tick_pc, s_session, ka_age, gateVars, s_controllers, teleVars, bleVars, busVars, taskVars>>

(* ======================= PID poller ======================= *)

\* poll_task: one poll_controller call
Poll(addr, ok, pv_x10) ==
    /\ s_controllers' = [s_controllers EXCEPT ![addr] = poll_controller(@, ok, pv_x10)]
    /\ UNCHANGED <<machineVars, s_di_bits, tick_pc, s_relay_state, s_session, ka_age,
                   gateVars, events, effects, last, teleVars, bleVars, busVars, taskVars>>

(* ======================= session manager calls ======================= *)

\* little-endian bytes of an unsigned value
RECURSIVE BytesLE(_, _)
BytesLE(x, n) == IF n = 0 THEN << >> ELSE << x % 256 >> \o BytesLE(x \div 256, n - 1)

\* the unsigned value of little-endian bytes
RECURSIVE FromLE(_)
FromLE(bytes) == IF bytes = << >> THEN 0 ELSE Head(bytes) + 256 * FromLE(Tail(bytes))

\* session_mgr_keepalive refreshing the timestamp but leaving a STALE session STALE
session_mgr_keepalive_no_revive(session, session_id) ==
    IF session.state = SESSION_STATE_NONE
    THEN [ret |-> ESP_ERR_INVALID_STATE, session |-> session, refreshed |-> FALSE]
    ELSE IF session.session_id # session_id
    THEN [ret |-> ESP_ERR_INVALID_ARG, session |-> session, refreshed |-> FALSE]
    ELSE [ret |-> ESP_OK, session |-> session, refreshed |-> TRUE]

\* session_mgr_keepalive: [ret, session, refreshed]
session_mgr_keepalive(session, session_id) ==
    IF session.state = SESSION_STATE_NONE
    THEN [ret |-> ESP_ERR_INVALID_STATE, session |-> session, refreshed |-> FALSE]
    ELSE IF session.session_id # session_id
    THEN [ret |-> ESP_ERR_INVALID_ARG, session |-> session, refreshed |-> FALSE]
    ELSE [ret |-> ESP_OK,
          session |-> IF session.state = SESSION_STATE_STALE
                      THEN [session EXCEPT !.state = SESSION_STATE_LIVE] ELSE session,
          refreshed |-> TRUE]

\* session_mgr_check_expiry expiring a lease at the deadline itself
session_mgr_check_expiry_at_deadline(session, elapsed_ms) ==
    IF session.state # SESSION_STATE_LIVE THEN [expired |-> FALSE, session |-> session]
    ELSE IF elapsed_ms >= SESSION_DEFAULT_LEASE_MS + SESSION_GRACE_PERIOD_MS
    THEN [expired |-> TRUE, session |-> [session EXCEPT !.state = SESSION_STATE_STALE]]
    ELSE [expired |-> FALSE, session |-> session]

\* session_mgr_check_expiry: [expired, session]
session_mgr_check_expiry(session, elapsed_ms) ==
    IF session.state # SESSION_STATE_LIVE THEN [expired |-> FALSE, session |-> session]
    ELSE IF elapsed_ms > SESSION_DEFAULT_LEASE_MS + SESSION_GRACE_PERIOD_MS
    THEN [expired |-> TRUE, session |-> [session EXCEPT !.state = SESSION_STATE_STALE]]
    ELSE [expired |-> FALSE, session |-> session]

\* session_mgr_force_expire
session_mgr_force_expire(session) ==
    IF session.state # SESSION_STATE_NONE THEN NoSession ELSE session

\* telemetry_task: HMI_NOT_LIVE set if check_expiry returned true, then
\* cleared if the session is live
hmi_alarm_update(alarm, expired, live) ==
    LET a1 == IF expired THEN BitSet(alarm, ALARM_BIT_HMI_NOT_LIVE_POS) ELSE alarm
    IN  IF live THEN BitClear(a1, ALARM_BIT_HMI_NOT_LIVE_POS) ELSE a1

\* telemetry_task, the head of one iteration: session_mgr_check_expiry() up
\* to its comparison, and, when that finds nothing to expire, the rest of the
\* alarm update (HMI_NOT_LIVE cleared if the session is live).  The session
\* record has no lock: when the comparison finds the lease expired, the write
\* of the state is a later step (MarkStale) and the transport task may run
\* in between.
CheckExpiry ==
    /\ expiry_pc = "idle"
    /\ IF session_mgr_check_expiry(s_session, ka_age).expired
       THEN /\ expiry_pc' = "expired"
            /\ s_alarm_bits' = s_alarm_bits
       ELSE /\ expiry_pc' = "idle"
            /\ s_alarm_bits' = hmi_alarm_update(s_alarm_bits, FALSE,
                                                session_mgr_is_live(s_session))
    /\ UNCHANGED <<machineVars, s_di_bits, tick_pc, s_relay_state, s_session, ka_age, gateVars,
                   s_controllers, events, effects, last, bleVars, busVars, taskVars>>

\* telemetry_task, the rest of an iteration whose comparison found the lease
\* expired: s_session.state = SESSION_STATE_STALE, HMI_NOT_LIVE set, and
\* cleared again if the session is live
MarkStale ==
    /\ expiry_pc = "expired"
    /\ s_session' = [s_session EXCEPT !.state = SESSION_STATE_STALE]
    /\ s_alarm_bits' = hmi_alarm_update(s_alarm_bits, TRUE, session_mgr_is_live(s_session'))
    /\ expiry_pc' = "idle"
    /\ UNCHANGED <<machineVars, s_di_bits, tick_pc, s_relay_state, ka_age, gateVars,
                   s_controllers, events, effects, last, bleVars, busVars, taskVars>>

\* gap_event_cb, BLE_GAP_EVENT_DISCONNECT
Disconnect ==
    /\ s_session' = session_mgr_force_expire(s_session)
    /\ ka_age' = IF s_session.state # SESSION_STATE_NONE THEN 0 ELSE ka_age
    /\ s_conn_handle' = BLE_HS_CONN_HANDLE_NONE
    /\ s_events_notify_subscribed' = FALSE
    /\ s_events_indicate_subscribed' = FALSE
    /\ UNCHANGED <<machineVars, s_di_bits, tick_pc, s_relay_state, gateVars,
                   s_controllers, events, effects, last, teleVars, s_tx_seq, tx, rx, busVars, taskVars>>

(* ======================= command dispatcher (handle_command) ================= *)

\* case CMD_OPEN_SESSION; new_id is the value esp_random() returned
CmdOpenSession(new_id) ==
    /\ s_session' = [state |-> SESSION_STATE_LIVE, session_id |-> new_id]
    /\ ka_age' = 0
    /\ last' = Ack("OPEN_SESSION", CMD_OPEN_SESSION, ESP_OK, CMD_STATUS_OK, 0,
                   BytesLE(new_id, 4) \o BytesLE(SESSION_DEFAULT_LEASE_MS, 2))
    /\ events' = << >>
    /\ effects' = << >>
    /\ UNCHANGED <<machineVars, s_di_bits, tick_pc, s_relay_state, gateVars, s_controllers, teleVars, busVars, taskVars>>

\* case CMD_KEEPALIVE
CmdKeepalive(session_id) ==
    LET r == session_mgr_keepalive(s_session, session_id)
    IN  /\ s_session' = r.session
        /\ ka_age' = IF r.refreshed THEN 0 ELSE ka_age
        /\ last' = IF r.ret = ESP_OK
                   THEN Ack("KEEPALIVE", CMD_KEEPALIVE, r.ret, CMD_STATUS_OK, 0, << >>)
                   ELSE Ack("KEEPALIVE", CMD_KEEPALIVE, r.ret, CMD_STATUS_REJECTED_POLICY, 1, << >>)
        /\ events' = << >>
        /\ effects' = << >>
        /\ UNCHANGED <<machineVars, s_di_bits, tick_pc, s_relay_state, gateVars,
                       s_controllers, teleVars, busVars, taskVars>>

\* the START_RUN acknowledgment with the interlock byte left out
StartRunAck_no_body(ret, di, session) ==
    IF ret = ESP_OK THEN Ack("START_RUN", CMD_START_RUN, ret, CMD_STATUS_OK, 0, << >>)
    ELSE IF ret = ESP_ERR_INVALID_ARG
    THEN Ack("START_RUN", CMD_START_RUN, ret, CMD_STATUS_REJECTED_POLICY, 1, << >>)
    ELSE IF ret = ESP_ERR_INVALID_STATE
    THEN Ack("START_RUN", CMD_START_RUN, ret, CMD_STATUS_NOT_READY, 0, << >>)
    ELSE IF ret = ESP_ERR_NOT_ALLOWED
    THEN Ack("START_RUN", CMD_START_RUN, ret, CMD_STATUS_REJECTED_POLICY, 2, << >>)
    ELSE Ack("START_RUN", CMD_START_RUN, ret, CMD_STATUS_HW_FAULT, 0, << >>)

\* case CMD_START_RUN: the acknowledgment for the value machine_state_start_run returned
StartRunAck(ret, di, session) ==
    IF ret = ESP_OK THEN Ack("START_RUN", CMD_START_RUN, ret, CMD_STATUS_OK, 0, << >>)
    ELSE IF ret = ESP_ERR_INVALID_ARG
    THEN Ack("START_RUN", CMD_START_RUN, ret, CMD_STATUS_REJECTED_POLICY, 1, << >>)
    ELSE IF ret = ESP_ERR_INVALID_STATE
    THEN Ack("START_RUN", CMD_START_RUN, ret, CMD_STATUS_NOT_READY, 0, << >>)
    ELSE IF ret = ESP_ERR_NOT_ALLOWED
    THEN Ack("START_RUN", CMD_START_RUN, ret, CMD_STATUS_REJECTED_POLICY, 2,
             << machine_state_get_interlocks(di, session) >>)
    ELSE Ack("START_RUN", CMD_START_RUN, ret, CMD_STATUS_HW_FAULT, 0, << >>)

\* case CMD_START_RUN: machine_state_start_run(session_id, run_mode, 0, 0)
CmdStartRun(session_id, run_mode) ==
    LET r == machine_state_start_run(M, session_id, run_mode, 0, 0, s_session, s_caps,
                                     s_gate_enable_mask, s_di_bits, s_controllers)
    IN  /\ Commit(r.m)
        /\ last' = StartRunAck(r.ret, s_di_bits, s_session)
        /\ UNCHANGED <<s_di_bits, tick_pc, s_session, ka_age, gateVars, s_controllers, teleVars, busVars, taskVars>>

\* the acknowledgment reporting an invalid session as NOT_READY
PlainAck_not_ready(op, cmd, ret, not_ready_detail) ==
    IF ret = ESP_OK THEN Ack(op, cmd, ret, CMD_STATUS_OK, 0, << >>)
    ELSE Ack(op, cmd, ret, CMD_STATUS_NOT_READY, not_ready_detail, << >>)

\* the acknowledgment of the commands that map INVALID_ARG to 0x0001 and the rest to NOT_READY
PlainAck(op, cmd, ret, not_ready_detail) ==
    IF ret = ESP_OK THEN Ack(op, cmd, ret, CMD_STATUS_OK, 0, << >>)
    ELSE IF ret = ESP_ERR_INVALID_ARG THEN Ack(op, cmd, ret, CMD_STATUS_REJECTED_POLICY, 1, << >>)
    ELSE Ack(op, cmd, ret, CMD_STATUS_NOT_READY, not_ready_detail, << >>)

\* case CMD_STOP_RUN
CmdStopRun(session_id, stop_mode) ==
    LET r == machine_state_stop_run(M, session_id, stop_mode, s_session)
    IN  /\ Commit(r.m)
        /\ last' = PlainAck("STOP_RUN", CMD_STOP_RUN, r.ret, 0)
        /\ UNCHANGED <<s_di_bits, tick_pc, s_session, ka_age, gateVars, s_controllers, teleVars, busVars, taskVars>>

\* case CMD_ENABLE_SERVICE_MODE
CmdEnableService(session_id) ==
    LET r == machine_state_enter_service(M, session_id, s_session)
    IN  /\ Commit(r.m)
        /\ last' = PlainAck("ENABLE_SERVICE_MODE", CMD_ENABLE_SERVICE_MODE, r.ret, 0)
        /\ UNCHANGED <<s_di_bits, tick_pc, s_session, ka_age, gateVars, s_controllers, teleVars, busVars, taskVars>>

\* case CMD_DISABLE_SERVICE_MODE
CmdDisableService(session_id) ==
    LET r == machine_state_exit_service(M, session_id, s_session)
    IN  /\ Commit(r.m)
        /\ last' = PlainAck("DISABLE_SERVICE_MODE", CMD_DISABLE_SERVICE_MODE, r.ret, 0)
        /\ UNCHANGED <<s_di_bits, tick_pc, s_session, ka_age, gateVars, s_controllers, teleVars, busVars, taskVars>>

\* case CMD_CLEAR_ESTOP
CmdClearEstop(session_id) ==
    LET r == machine_state_clear_estop(M, session_id, s_session, s_di_bits)
    IN  /\ Commit(r.m)
        /\ last' = PlainAck("CLEAR_ESTOP", CMD_CLEAR_ESTOP, r.ret, 3)
        /\ UNCHANGED <<s_di_bits, tick_pc, s_session, ka_age, gateVars, s_controllers, teleVars, busVars, taskVars>>

\* case CMD_CLEAR_LATCHED_ALARMS: machine_state_clear_fault
CmdClearLatchedAlarms(session_id) ==
    LET r == machine_state_clear_fault(M, session_id, s_session, s_di_bits)
    IN  /\ Commit(r.m)
        /\ last' = PlainAck("CLEAR_LATCHED_ALARMS", CMD_CLEAR_LATCHED_ALARMS, r.ret, 0)
        /\ UNCHANGED <<s_di_bits, tick_pc, s_session, ka_age, gateVars, s_controllers, teleVars, busVars, taskVars>>

\* case CMD_SET_RELAY
CmdSetRelay(relay_index, state) ==
    /\ IF relay_index < 1 \/ relay_index > 8 \/ state > 2
       THEN /\ s_relay_state' = s_relay_state
            /\ last' = Ack("SET_RELAY", CMD_SET_RELAY, ESP_ERR_INVALID_ARG,
                           CMD_STATUS_INVALID_ARGS, 5, << >>)
       ELSE /\ s_relay_state' = relay_ctrl_set(s_relay_state, relay_index, state)
            /\ last' = Ack("SET_RELAY", CMD_SET_RELAY, ESP_OK, CMD_STATUS_OK, 0, << >>)
    /\ events' = << >>
    /\ effects' = << >>
    /\ UNCHANGED <<machineVars, s_di_bits, tick_pc, s_session, ka_age, gateVars,
                   s_controllers, teleVars, busVars, taskVars>>

\* case CMD_SET_RELAY_MASK
CmdSetRelayMask(mask, values) ==
    /\ IF mask = 0
       THEN /\ s_relay_state' = s_relay_state
            /\ last' = Ack("SET_RELAY_MASK", CMD_SET_RELAY_MASK, ESP_ERR_INVALID_ARG,
                           CMD_STATUS_INVALID_ARGS, 5, << >>)
       ELSE /\ s_relay_state' = relay_ctrl_set_mask(s_relay_state, mask, values)
            /\ last' = Ack("SET_RELAY_MASK", CMD_SET_RELAY_MASK, ESP_OK, CMD_STATUS_OK, 0, << >>)
    /\ events' = << >>
    /\ effects' = << >>
    /\ UNCHANGED <<machineVars, s_di_bits, tick_pc, s_session, ka_age, gateVars,
                   s_controllers, teleVars, busVars, taskVars>>

(* ======================= wire_protocol.c: frames ======================= *)

WIRE_PROTO_VERSION == 1

WIRE_HEADER_SIZE == 6

WIRE_CRC_SIZE == 2

WIRE_MAX_PAYLOAD == 512

WIRE_MAX_FRAME_SIZE == WIRE_HEADER_SIZE + WIRE_MAX_PAYLOAD + WIRE_CRC_SIZE

MSG_TYPE_COMMAND == 16

MSG_TYPE_COMMAND_ACK == 17

CMD_SET_SV == 32

CMD_STATUS_TIMEOUT == 6

ESP_FAIL == "ESP_FAIL"

ESP_ERR_INVALID_RESPONSE == "ESP_ERR_INVALID_RESPONSE"

MODBUS_OK == 0

MODBUS_ERR_TIMEOUT == 1

MODBUS_ERR_BUSY == 7

RECURSIVE Xor(_, _, _)
\* a ^ b on the low n bits
Xor(a, b, n) == IF n = 0 THEN 0 ELSE ((a + b) % 2) + 2 * Xor(a \div 2, b \div 2, n - 1)

\* a ^ b of two bytes, tabulated
XorByte == [a \in 0..255 |-> [b \in 0..255 |-> Xor(a, b, 8)]]

\* CRC-16/CCITT-FALSE lookup table (poly 0x1021)
crc16_table ==
    << 0, 4129, 8258, 12387, 16516, 20645, 24774, 28903,
       33032, 37161, 41290, 45419, 49548, 53677, 57806, 61935,
       4657, 528, 12915, 8786, 21173, 17044, 29431, 25302,
       37689, 33560, 45947, 41818, 54205, 50076, 62463, 58334,
       9314, 13379, 1056, 5121, 25830, 29895, 17572, 21637,
       42346, 46411, 34088, 38153, 58862, 62927, 50604, 54669,
       13907, 9842, 5649, 1584, 30423, 26358, 22165, 18100,
       46939, 42874, 38681, 34616, 63455, 59390, 55197, 51132,
       18628, 22757, 26758, 30887, 2112, 6241, 10242, 14371,
       51660, 55789, 59790, 63919, 35144, 39273, 43274, 47403,
       23285, 19156, 31415, 27286, 6769, 2640, 14899, 10770,
       56317, 52188, 64447, 60318, 39801, 35672, 47931, 43802,
       27814, 31879, 19684, 23749, 11298, 15363, 3168, 7233,
       60846, 64911, 52716, 56781, 44330, 48395, 36200, 40265,
       32407, 28342, 24277, 20212, 15891, 11826, 7761, 3696,
       65439, 61374, 57309, 53244, 48923, 44858, 40793, 36728,
       37256, 33193, 45514, 41451, 53516, 49453, 61774, 57711,
       4224, 161, 12482, 8419, 20484, 16421, 28742, 24679,
       33721, 37784, 41979, 46042, 49981, 54044, 58239, 62302,
       689, 4752, 8947, 13010, 16949, 21012, 25207, 29270,
       46570, 42443, 38312, 34185, 62830, 58703, 54572, 50445,
       13538, 9411, 5280, 1153, 29798, 25671, 21540, 17413,
       42971, 47098, 34713, 38840, 59231, 63358, 50973, 55100,
       9939, 14066, 1681, 5808, 26199, 30326, 17941, 22068,
       55628, 51565, 63758, 59695, 39368, 35305, 47498, 43435,
       22596, 18533, 30726, 26663, 6336, 2273, 14466, 10403,
       52093, 56156, 60223, 64286, 35833, 39896, 43963, 48026,
       19061, 23124, 27191, 31254, 2801, 6864, 10931, 14994,
       64814, 60687, 56684, 52557, 48554, 44427, 40424, 36297,
       31782, 27655, 23652, 19525, 15522, 11395, 7392, 3265,
       61215, 65342, 53085, 57212, 44955, 49082, 36825, 40952,
       28183, 32310, 20053, 24180, 11923, 16050, 3793, 7920 >>

RECURSIVE Crc16From(_, _, _, _)
\* the loop of wire_crc16 over bytes i..j: crc = (crc << 8) ^ crc16_table[((crc >> 8) ^ data[i]) & 0xFF],
\* crc a uint16_t; the low byte of crc << 8 is 0, so the table entry's low byte is the new low
\* byte.  The range is taken in two halves, first half first; a crc is never negative, the
\* test has it evaluated before the range is entered.
Crc16From(crc, data, i, j) ==
    IF i > j \/ crc < 0 THEN crc
    ELSE IF i = j
    THEN LET entry == crc16_table[XorByte[crc \div 256][data[i]] + 1]
         IN  (XorByte[crc % 256][entry \div 256] * 256) + (entry % 256)
    ELSE LET mid == (i + j) \div 2
         IN  Crc16From(Crc16From(crc, data, i, mid), data, mid + 1, j)

\* wire_crc16: init 0xFFFF
wire_crc16(data) == Crc16From(65535, data, 1, Len(data))

\* header and payload bytes followed by their CRC (little-endian), or by a CRC one bit off
Frame(bytes, crc_ok) ==
    bytes \o BytesLE(IF crc_ok THEN wire_crc16(bytes) ELSE BitToggle(wire_crc16(bytes), 0), 2)

\* wire_build_frame writing the sequence number high byte first
wire_build_frame_seq_big_endian(out_buf_size, msg_type, seq, payload) ==
    IF out_buf_size < WIRE_HEADER_SIZE + Len(payload) + WIRE_CRC_SIZE \/ Len(payload) > WIRE_MAX_PAYLOAD
    THEN NoFrame
    ELSE Frame(<< WIRE_PROTO_VERSION, msg_type, seq \div 256, seq % 256 >> \o BytesLE(Len(payload), 2)
               \o payload, TRUE)

\* wire_build_frame: header (little-endian), payload, CRC; no bytes when it returns 0
wire_build_frame(out_buf_size, msg_type, seq, payload) ==
    IF out_buf_size < WIRE_HEADER_SIZE + Len(payload) + WIRE_CRC_SIZE \/ Len(payload) > WIRE_MAX_PAYLOAD
    THEN NoFrame
    ELSE Frame(<< WIRE_PROTO_VERSION, msg_type >> \o BytesLE(seq, 2) \o BytesLE(Len(payload), 2)
               \o payload, TRUE)

\* wire_parse_frame: [ok, msg_type, seq, payload_len, payload]; the CRC is read at the
\* offset the header declares, bytes after it are not looked at
wire_parse_frame(f) ==
    LET frame_len == Len(f)
        bad == [ok |-> FALSE, msg_type |-> 0, seq |-> 0, payload_len |-> 0, payload |-> << >>]
    IN  IF frame_len < WIRE_HEADER_SIZE + WIRE_CRC_SIZE THEN bad
        ELSE LET payload_len == FromLE(SubSeq(f, 5, 6))
                 expected_len == WIRE_HEADER_SIZE + payload_len + WIRE_CRC_SIZE
                 crc_offset == WIRE_HEADER_SIZE + payload_len
             IN  IF f[1] # WIRE_PROTO_VERSION THEN bad
                 ELSE IF frame_len < expected_len \/ payload_len > WIRE_MAX_PAYLOAD THEN bad
                 ELSE IF FromLE(SubSeq(f, crc_offset + 1, crc_offset + 2)) # wire_crc16(SubSeq(f, 1, crc_offset))
                 THEN bad
                 ELSE [ok |-> TRUE, msg_type |-> f[2], seq |-> FromLE(SubSeq(f, 3, 4)),
                       payload_len |-> payload_len,
                       payload |-> SubSeq(f, WIRE_HEADER_SIZE + 1, WIRE_HEADER_SIZE + payload_len)]

\* wire_build_cmd_ack: acked_seq, cmd_id, status, detail, optional data
wire_build_cmd_ack(out_buf_size, seq, acked_seq, cmd_id, status, detail, optional_data) ==
    LET payload == BytesLE(acked_seq, 2) \o BytesLE(cmd_id, 2) \o << status >> \o BytesLE(detail, 2)
                   \o optional_data
    IN  IF Len(payload) > WIRE_MAX_PAYLOAD THEN NoFrame
        ELSE wire_build_frame(out_buf_size, MSG_TYPE_COMMAND_ACK, seq, payload)

(* ======================= ble_gatt.c: send_ack and the BLE link ================= *)

\* send_ack refusing to send to a client that enabled neither notifications
\* nor indications
send_ack_subscribers_only(conn, can_indicate, can_notify, tx_seq, acked_seq, ack) ==
    IF conn = BLE_HS_CONN_HANDLE_NONE \/ (~can_indicate /\ ~can_notify)
    THEN [tx_seq |-> tx_seq, sent |-> << >>]
    ELSE LET frame == wire_build_cmd_ack(WIRE_MAX_FRAME_SIZE, tx_seq, acked_seq, ack.cmd,
                                         ack.status, ack.detail, ack.body)
         IN  [tx_seq |-> (tx_seq + 1) % 65536,
              sent |-> << [via |-> IF ack.cmd \in {CMD_OPEN_SESSION, CMD_START_RUN, CMD_STOP_RUN}
                                      /\ can_indicate THEN "indicate" ELSE "notify",
                           frame |-> frame] >>]

\* send_ack(acked_seq, cmd_id, status, detail, opt_data, opt_len), the last
\* five in ack: [tx_seq, sent], sent the frames handed to the BLE stack
\* (ble_gatts_indicate_custom or ble_gatts_notify_custom).  The stack's mbuf
\* pool is taken not to be exhausted.
send_ack(conn, can_indicate, can_notify, tx_seq, acked_seq, ack) ==
    IF conn = BLE_HS_CONN_HANDLE_NONE THEN [tx_seq |-> tx_seq, sent |-> << >>]
    ELSE LET frame == wire_build_cmd_ack(WIRE_MAX_FRAME_SIZE, tx_seq, acked_seq, ack.cmd,
                                         ack.status, ack.detail, ack.body)
             want_indicate == ack.cmd \in {CMD_OPEN_SESSION, CMD_START_RUN, CMD_STOP_RUN}
         IN  [tx_seq |-> (tx_seq + 1) % 65536,
              sent |-> IF frame = NoFrame THEN << >>
                       ELSE << [via |-> IF want_indicate /\ can_indicate THEN "indicate" ELSE "notify",
                                frame |-> frame] >>]

\* the send_ack call that ends a case of handle_command: the acknowledgment
\* the case left in last, for the command frame with sequence number acked_seq
SendAck(acked_seq) ==
    LET r == send_ack(s_conn_handle, s_events_indicate_subscribed, s_events_notify_subscribed,
                      s_tx_seq, acked_seq, last')
    IN  /\ tx' = r.sent
        /\ s_tx_seq' = r.tx_seq
        /\ UNCHANGED <<s_conn_handle, s_events_indicate_subscribed, s_events_notify_subscribed>>

\* a case of handle_command entered with its arguments already parsed: the
\* bytes of the command frame are left out, its sequence number is 0
Unframed == SendAck(0) /\ UNCHANGED rx

\* gap_event_cb, BLE_GAP_EVENT_CONNECT with status 0
Connect ==
    /\ s_conn_handle = BLE_HS_CONN_HANDLE_NONE
    /\ s_conn_handle' = 0
    /\ UNCHANGED <<machineVars, s_di_bits, tick_pc, s_relay_state, s_session, ka_age, gateVars,
                   s_controllers, events, effects, last, teleVars, s_events_indicate_subscribed,
                   s_events_notify_subscribed, s_tx_seq, tx, rx, busVars, taskVars>>

\* gap_event_cb, BLE_GAP_EVENT_SUBSCRIBE on the Events+Acks characteristic
Subscribe(cur_notify, cur_indicate) ==
    /\ s_conn_handle # BLE_HS_CONN_HANDLE_NONE
    /\ s_events_notify_subscribed' = cur_notify
    /\ s_events_indicate_subscribed' = cur_indicate
    /\ UNCHANGED <<machineVars, s_di_bits, tick_pc, s_relay_state, s_session, ka_age, gateVars,
                   s_controllers, events, effects, last, teleVars, s_conn_handle, s_tx_seq, tx, rx, busVars, taskVars>>

(* ======================= pid_controller.c: setpoint write ====================== *)

\* encode_temp(sv_x10 / 10.0f): (int16_t)(temp * 10.0f + 0.5f), the cast
\* truncating toward zero
encode_temp(sv_x10) == IF sv_x10 >= 0 THEN sv_x10 ELSE sv_x10 + 1

\* pid_controller_set_sv after pid_controller_init: write_err and read_err
\* are what modbus_write_single and modbus_read_holding returned, readback
\* the register value read; the difference is compared in hundredths of a degree
pid_controller_set_sv(sv_x10, write_err, read_err, readback) ==
    IF write_err # MODBUS_OK THEN ESP_FAIL
    ELSE IF read_err # MODBUS_OK THEN ESP_OK
    ELSE LET diff == 10 * sv_x10 - 10 * ToInt16(readback)
         IN  IF diff < -15 \/ diff > 15 THEN ESP_ERR_INVALID_RESPONSE ELSE ESP_OK

\* case CMD_SET_SV: the acknowledgment for the value pid_controller_set_sv returned
SetSvAck(err, readback) ==
    IF err = ESP_OK THEN Ack("SET_SV", CMD_SET_SV, err, CMD_STATUS_OK, 0, << >>)
    ELSE IF err = ESP_ERR_INVALID_STATE
    THEN Ack("SET_SV", CMD_SET_SV, err, CMD_STATUS_NOT_READY, 0, << >>)
    ELSE Ack("SET_SV", CMD_SET_SV, err, CMD_STATUS_TIMEOUT, 4, << >>)

\* case CMD_SET_SV with a body of full length; bus holds what the three bus
\* calls return: the write, the verifying read (device register = raw written
\* + bus.drift), and the poll pid_controller_force_poll makes after a success
CmdSetSv(ctrl_id, sv_x10, bus) ==
    LET readback == (encode_temp(sv_x10) + bus.drift) % 65536
        err == pid_controller_set_sv(sv_x10, bus.write_err, bus.read_err, readback)
    IN  /\ IF ctrl_id < 1 \/ ctrl_id > PID_MAX_CONTROLLERS
           THEN /\ last' = Ack("SET_SV", CMD_SET_SV, ESP_ERR_INVALID_ARG, CMD_STATUS_INVALID_ARGS,
                               5, << >>)
                /\ s_controllers' = s_controllers
           ELSE /\ last' = SetSvAck(err, readback)
                /\ s_controllers' = IF err = ESP_OK
                                    THEN [s_controllers EXCEPT ![ctrl_id] =
                                             poll_controller(@, bus.poll_ok, bus.pv_x10)]
                                    ELSE s_controllers
        /\ events' = << >>
        /\ effects' = << >>
        /\ UNCHANGED <<machineVars, s_di_bits, tick_pc, s_relay_state, s_session, ka_age, gateVars,
                       teleVars, busVars, taskVars>>

(* ======================= ble_gatt.c: handle_command ======================= *)

\* a case that found the command body shorter than its structure, and the
\* default case: INVALID_ARGS, nothing done
CmdInvalidArgs(cmd_id) ==
    /\ last' = Ack("INVALID", cmd_id, ESP_ERR_INVALID_ARG, CMD_STATUS_INVALID_ARGS, 0, << >>)
    /\ events' = << >>
    /\ effects' = << >>
    /\ UNCHANGED <<machineVars, s_di_bits, tick_pc, s_relay_state, s_session, ka_age, gateVars,
                   s_controllers, teleVars, busVars, taskVars>>

\* the body length each case requires before it reads its arguments
BodyLen(cmd_id) ==
    CASE cmd_id \in {CMD_OPEN_SESSION, CMD_KEEPALIVE, CMD_ENABLE_SERVICE_MODE,
                     CMD_DISABLE_SERVICE_MODE, CMD_CLEAR_ESTOP, CMD_CLEAR_LATCHED_ALARMS} -> 4
      [] cmd_id \in {CMD_START_RUN, CMD_STOP_RUN} -> 5
      [] cmd_id = CMD_SET_SV -> 3
      [] cmd_id \in {CMD_SET_RELAY, CMD_SET_RELAY_MASK} -> 2
      [] OTHER -> 0

\* the command ids whose cases are modelled; any other id is acknowledged as
\* the default case acknowledges it
Cases == {CMD_OPEN_SESSION, CMD_KEEPALIVE, CMD_START_RUN, CMD_STOP_RUN, CMD_ENABLE_SERVICE_MODE,
          CMD_DISABLE_SERVICE_MODE, CMD_CLEAR_ESTOP, CMD_CLEAR_LATCHED_ALARMS, CMD_SET_SV,
          CMD_SET_RELAY, CMD_SET_RELAY_MASK}

\* handle_command(conn_handle, data, len): f the bytes written to the command
\* characteristic, new_id what esp_random() returns, bus what the bus calls return
handle_command(f, new_id, bus) ==
    LET h == wire_parse_frame(f)
    IN  IF ~h.ok \/ h.msg_type # MSG_TYPE_COMMAND \/ h.payload_len < 4
        THEN /\ last' = Call("handle_command", ESP_ERR_INVALID_ARG)
             /\ tx' = << >>
             /\ rx' = f
             /\ UNCHANGED <<machineVars, s_di_bits, tick_pc, s_relay_state, s_session, ka_age,
                            gateVars, s_controllers, events, effects, teleVars, s_conn_handle,
                            s_events_indicate_subscribed, s_events_notify_subscribed, s_tx_seq,
                            busVars, taskVars>>
        ELSE LET cmd_id == FromLE(SubSeq(h.payload, 1, 2))
                 body == SubSeq(h.payload, 5, h.payload_len)
                 session_id == FromLE(SubSeq(body, 1, 4))
             IN  /\ IF cmd_id \notin Cases \/ Len(body) < BodyLen(cmd_id) THEN CmdInvalidArgs(cmd_id)
                    ELSE CASE cmd_id = CMD_OPEN_SESSION -> CmdOpenSession(new_id)
                           [] cmd_id = CMD_KEEPALIVE -> CmdKeepalive(session_id)
                           [] cmd_id = CMD_START_RUN -> CmdStartRun(session_id, body[5])
                           [] cmd_id = CMD_STOP_RUN -> CmdStopRun(session_id, body[5])
                           [] cmd_id = CMD_ENABLE_SERVICE_MODE -> CmdEnableService(session_id)
                           [] cmd_id = CMD_DISABLE_SERVICE_MODE -> CmdDisableService(session_id)
                           [] cmd_id = CMD_CLEAR_ESTOP -> CmdClearEstop(session_id)
                           [] cmd_id = CMD_CLEAR_LATCHED_ALARMS -> CmdClearLatchedAlarms(session_id)
                           [] cmd_id = CMD_SET_SV ->
                                CmdSetSv(body[1], ToInt16(FromLE(SubSeq(body, 2, 3))), bus)
                           [] cmd_id = CMD_SET_RELAY -> CmdSetRelay(body[1], body[2])
                           [] cmd_id = CMD_SET_RELAY_MASK -> CmdSetRelayMask(body[1], body[2])
                 /\ SendAck(h.seq)
                 /\ rx' = f

(* ======================= safety_gate.c: public API calls ======================= *)

\* save_capability_to_nvs: [err, nvs]; the E-Stop subsystem has no key
save_capability_to_nvs(stored, subsys, level) ==
    IF subsys \in {SUBSYS_PID1, SUBSYS_PID2, SUBSYS_PID3, SUBSYS_DI_DOOR, SUBSYS_DI_LN2,
                   SUBSYS_DI_MOTOR}
    THEN [err |-> ESP_OK, nvs |-> [stored EXCEPT ![subsys] = level]]
    ELSE [err |-> ESP_ERR_INVALID_ARG, nvs |-> stored]

\* safety_gate_set_capability: [ret, caps, nvs]
safety_gate_set_capability(caps, stored, subsys, level) ==
    IF subsys >= SUBSYS_MAX THEN [ret |-> ESP_ERR_INVALID_ARG, caps |-> caps, nvs |-> stored]
    ELSE IF subsys = SUBSYS_DI_ESTOP
    THEN [ret |-> ESP_ERR_INVALID_ARG, caps |-> caps, nvs |-> stored]
    ELSE IF level > CAP_REQUIRED THEN [ret |-> ESP_ERR_INVALID_ARG, caps |-> caps, nvs |-> stored]
    ELSE LET w == save_capability_to_nvs(stored, subsys, level)
         IN  IF w.err # ESP_OK THEN [ret |-> w.err, caps |-> caps, nvs |-> stored]
             ELSE [ret |-> ESP_OK, caps |-> [caps EXCEPT ![subsys] = level], nvs |-> w.nvs]

\* safety_gate_set_enabled without the refusal to bypass the E-Stop gate
safety_gate_set_enabled_any(mask, gate, enabled) ==
    IF gate >= GATE_MAX THEN [ret |-> ESP_ERR_INVALID_ARG, mask |-> mask]
    ELSE IF enabled THEN [ret |-> ESP_OK, mask |-> BitSet(mask, gate)]
    ELSE [ret |-> ESP_OK, mask |-> BitClear(mask, gate)]

\* safety_gate_set_enabled: [ret, mask]
safety_gate_set_enabled(mask, gate, enabled) ==
    IF gate >= GATE_MAX THEN [ret |-> ESP_ERR_INVALID_ARG, mask |-> mask]
    ELSE IF gate = GATE_ESTOP /\ ~enabled THEN [ret |-> ESP_ERR_INVALID_ARG, mask |-> mask]
    ELSE IF enabled THEN [ret |-> ESP_OK, mask |-> BitSet(mask, gate)]
    ELSE [ret |-> ESP_OK, mask |-> BitClear(mask, gate)]

RECURSIVE StatusBits(_, _, _, _, _, _)
\* the loop of safety_gate_get_status_mask over gates 0..n-1
StatusBits(n, caps, mask, di, session, ctrls) ==
    IF n = 0 THEN 0
    ELSE (IF safety_gate_check(n - 1, caps, mask, di, session, ctrls)
               \in {GATE_STATUS_PASSING, GATE_STATUS_BYPASSED, GATE_STATUS_NA}
          THEN Pow2(n - 1) ELSE 0)
         + StatusBits(n - 1, caps, mask, di, session, ctrls)

safety_gate_get_status_mask(caps, mask, di, session, ctrls) ==
    StatusBits(GATE_MAX, caps, mask, di, session, ctrls)

\* safety_gate_init as it runs at a boot: capabilities reloaded, bypasses reset
SafetyGateInit ==
    /\ s_caps' = load_capabilities_from_nvs(nvs)
    /\ s_gate_enable_mask' = 65535
    /\ last' = Call("safety_gate_init", ESP_OK)
    /\ events' = << >>
    /\ effects' = << >>
    /\ UNCHANGED <<machineVars, s_di_bits, tick_pc, s_relay_state, s_session, ka_age,
                   nvs, s_controllers, teleVars, bleVars, busVars, taskVars>>

SetCapability(subsys, level) ==
    LET r == safety_gate_set_capability(s_caps, nvs, subsys, level)
    IN  /\ s_caps' = r.caps
        /\ nvs' = r.nvs
        /\ last' = [Call("safety_gate_set_capability", r.ret) EXCEPT !.cmd = subsys]
        /\ events' = << >>
        /\ effects' = << >>
        /\ UNCHANGED <<machineVars, s_di_bits, tick_pc, s_relay_state, s_session, ka_age,
                       s_gate_enable_mask, s_controllers, teleVars, bleVars, busVars, taskVars>>

SetEnabled(gate, enabled) ==
    LET r == safety_gate_set_enabled(s_gate_enable_mask, gate, enabled)
    IN  /\ s_gate_enable_mask' = r.mask
        /\ last' = [Call("safety_gate_set_enabled", r.ret) EXCEPT !.cmd = gate,
                                                              !.detail = IF enabled THEN 1 ELSE 0]
        /\ events' = << >>
        /\ effects' = << >>
        /\ UNCHANGED <<machineVars, s_di_bits, tick_pc, s_relay_state, s_session, ka_age,
                       s_caps, nvs, s_controllers, teleVars, bleVars, busVars, taskVars>>

\* a call of safety_gate_can_start_run: detail is *out_blocking_gate
CanStartRun ==
    LET g == safety_gate_can_start_run(s_caps, s_gate_enable_mask, s_di_bits, s_session,
                                       s_controllers)
    IN  /\ last' = [Call("safety_gate_can_start_run", ESP_OK) EXCEPT
                        !.status = IF g = -1 THEN 1 ELSE 0, !.detail = g]
        /\ events' = << >>
        /\ effects' = << >>
        /\ UNCHANGED <<machineVars, s_di_bits, tick_pc, s_relay_state, s_session, ka_age,
                       gateVars, s_controllers, teleVars, bleVars, busVars, taskVars>>

\* a call of safety_gate_check(gate): status is the gate_status_t returned
GateCheck(gate) ==
    /\ last' = [Call("safety_gate_check", ESP_OK) EXCEPT
                    !.cmd = gate,
                    !.status = safety_gate_check(gate, s_caps, s_gate_enable_mask, s_di_bits,
                                                 s_session, s_controllers)]
    /\ events' = << >>
    /\ effects' = << >>
    /\ UNCHANGED <<machineVars, s_di_bits, tick_pc, s_relay_state, s_session, ka_age,
                   gateVars, s_controllers, teleVars, bleVars, busVars, taskVars>>

(* ======================= the firmware as a whole ======================= *)

\* the telemetry task is not inside session_mgr_check_expiry
Quiet == expiry_pc = "idle"

\* Spec follows the state machine under one connected transport: a session
\* is opened, and ends by the disconnect.  The lease running out (CheckExpiry,
\* MarkStale) and its renewal (CmdKeepalive) are followed in SpecSession,
\* SpecRun and SpecCall; the chamber is polled at the precool target, and the
\* relay command is the one that the interlocks do not guard.
Next ==
    \/ Advance
    \/ \E v \in DIValues : UpdateDI(v)
    \/ TickBody
    \/ ForceSafe
    \/ Poll(CHAMBER_PID_ADDR, TRUE, PRECOOL_TARGET_TEMP_X10)
    \/ Disconnect
    \/ \E id \in SessionIds : CmdOpenSession(id) /\ Unframed
    \/ \E id \in SessionIdArgs, mode \in RunModes : CmdStartRun(id, mode) /\ Unframed
    \/ \E id \in SessionIdArgs, mode \in StopModes : CmdStopRun(id, mode) /\ Unframed
    \/ \E id \in SessionIdArgs : CmdEnableService(id) /\ Unframed
    \/ \E id \in SessionIdArgs : CmdDisableService(id) /\ Unframed
    \/ \E id \in SessionIdArgs : CmdClearEstop(id) /\ Unframed
    \/ \E id \in SessionIdArgs : CmdClearLatchedAlarms(id) /\ Unframed
    \/ CmdSetRelay(RO_CHAMBER_LIGHT, RELAY_STATE_TOGGLE) /\ Unframed
Spec == Init /\ [][Next]_vars

(* ======================= the safety gate on its own ======================= *)
(* The gate functions are pure in the capability table, the enable mask,    *)
(* the cached inputs, the session and the controller cache.  SpecGate draws *)
(* the last three at Init and reaches tables and masks through the API.     *)

\* a controller cache entry
Ctrl(state, pv_x10, error_count) == [state |-> state, pv_x10 |-> pv_x10, error_count |-> error_count]

\* controller caches: 1 reading -300.0, 2 healthy / offline / stale over-range /
\* under-range, 3 healthy or offline
GateCtrls ==
    { [a \in 1..PID_MAX_CONTROLLERS |-> IF a = 1 THEN c1 ELSE IF a = 2 THEN c2 ELSE c3] :
        c1 \in {Ctrl(PID_STATE_ONLINE, -3000, 0)},
        c2 \in {Ctrl(PID_STATE_ONLINE, 200, 0), Ctrl(PID_STATE_OFFLINE, 200, MaxErrorCount),
                Ctrl(PID_STATE_STALE, 5000, 1), Ctrl(PID_STATE_ONLINE, -3000, 0)},
        c3 \in {Ctrl(PID_STATE_ONLINE, 200, 0), Ctrl(PID_STATE_OFFLINE, 200, MaxErrorCount)} }

GateSessions == {NoSession, [state |-> SESSION_STATE_LIVE, session_id |-> 1]}

\* subsystems and levels passed to safety_gate_set_capability
GateSubsys == {SUBSYS_PID2, SUBSYS_DI_ESTOP, SUBSYS_DI_DOOR, SUBSYS_MAX}

GateLevels == {CAP_NOT_PRESENT, CAP_OPTIONAL, CAP_REQUIRED, 3}

\* gates passed to safety_gate_set_enabled
GateIds == {GATE_ESTOP, GATE_DOOR_CLOSED, GATE_HMI_LIVE, GATE_MAX}

InitGate ==
    /\ s_di_bits \in DIValues
    /\ s_session \in GateSessions
    /\ s_controllers \in GateCtrls
    /\ s_state = IF check_estop_active(s_di_bits) THEN MACHINE_STATE_E_STOP ELSE MACHINE_STATE_IDLE
    /\ s_run_mode = RUN_MODE_NORMAL
    /\ s_run_duration_ms = 0
    /\ s_target_temp_x10 = 0
    /\ state_age = 0
    /\ run_age = -1
    /\ tick_pc = "read"
    /\ s_relay_state = 0
    /\ ka_age = 0
    /\ nvs = FactoryImage
    /\ s_caps = load_capabilities_from_nvs(nvs)
    /\ s_gate_enable_mask = 65535
    /\ events = << >>
    /\ effects = << >>
    /\ s_alarm_bits = 0
    /\ expiry_pc = "idle"
    /\ last = NoCall
    /\ LinkBoot

NextGate ==
    \/ SafetyGateInit
    \/ \E subsys \in GateSubsys, level \in GateLevels : SetCapability(subsys, level)
    \/ \E g \in GateIds, en \in BOOLEAN : SetEnabled(g, en)
    \/ CanStartRun
    \/ \E g \in 0..GATE_MAX : GateCheck(g)

SpecGate == InitGate /\ [][NextGate]_vars

(* ======================= the door input during a run ======================= *)
(* The machine with the door capability and the door gate bypass varied.    *)

DoorLevels == {CAP_NOT_PRESENT, CAP_OPTIONAL, CAP_REQUIRED}

NextDoor ==
    \/ \E v \in DIValues : UpdateDI(v)
    \/ TickBody
    \/ \E pv \in PvValues : Poll(CHAMBER_PID_ADDR, TRUE, pv)
    \/ \E id \in SessionIds : CmdOpenSession(id) /\ Unframed
    \/ \E id \in SessionIds, mode \in RunModes : CmdStartRun(id, mode) /\ Unframed
    \/ \E level \in DoorLevels : SetCapability(SUBSYS_DI_DOOR, level)
    \/ \E en \in BOOLEAN : SetEnabled(GATE_DOOR_CLOSED, en)

SpecDoor == Init /\ [][NextDoor]_vars

(* ======================= the session manager and the telemetry task ========== *)
(* SpecSession is the session record under the transport task (open,         *)
(* keepalive, disconnect) and the telemetry task (check_expiry, alarm bit),  *)
(* with time in steps of the grace period and the telemetry iteration        *)
(* interruptible between its comparison and its write.                       *)

\* ids esp_random() returns in SpecSession: one more than in Spec, so that an
\* open can replace a session by one with another id
LeaseIds == 1..(MaxSessionId + 1)

\* session ids carried by KEEPALIVE in SpecSession; 0 is never issued
LeaseIdArgs == 0..(MaxSessionId + 1)

\* results of successive esp_random() calls in session_mgr_open
RandomDraws == { << id >> : id \in LeaseIds } \cup { << 0, id >> : id \in LeaseIds }

\* session_mgr_open taking the first draw whatever it is
session_mgr_open_id_first_draw(draws) == Head(draws)

\* session_mgr_open: do { new_id = esp_random(); } while (new_id == 0)
RECURSIVE session_mgr_open_id(_)
session_mgr_open_id(draws) ==
    IF Head(draws) # 0 THEN Head(draws) ELSE session_mgr_open_id(Tail(draws))

\* esp_timer_get_time() advances by one grace period; the age of the last
\* refresh saturates just past lease + grace, where check_expiry compares it
AdvanceLease ==
    /\ s_session.state # SESSION_STATE_NONE
    /\ ka_age <= SESSION_DEFAULT_LEASE_MS + SESSION_GRACE_PERIOD_MS
    /\ ka_age' = Min(ka_age + SESSION_GRACE_PERIOD_MS,
                     SESSION_DEFAULT_LEASE_MS + SESSION_GRACE_PERIOD_MS + 1)
    /\ UNCHANGED <<machineVars, s_di_bits, tick_pc, s_relay_state, s_session, gateVars,
                   s_controllers, teleVars, bleVars, busVars, taskVars, events, effects, last>>

NextSession ==
    \/ AdvanceLease
    \/ CheckExpiry
    \/ MarkStale
    \/ Disconnect
    \/ \E draws \in RandomDraws : CmdOpenSession(session_mgr_open_id(draws)) /\ Unframed
    \/ \E id \in LeaseIdArgs : CmdKeepalive(id) /\ Unframed

SpecSession == Init /\ [][NextSession]_vars

(* ======================= a timed run through the API ======================= *)
(* The dispatcher starts every run with duration 0 (no limit).  SpecRun     *)
(* calls machine_state_start_run as machine_state.h declares it, with a     *)
(* duration, next to the state task, the poller and the session calls.      *)

\* run_duration_ms arguments: no limit, and two steps of Advance
RunDurations == {0, 2 * STOPPING_SOAK_TIME_MS}

\* machine_state_start_run(session_id, mode, 0, run_duration_ms)
StartRun(session_id, run_mode, run_duration_ms) ==
    LET r == machine_state_start_run(M, session_id, run_mode, 0, run_duration_ms, s_session,
                                     s_caps, s_gate_enable_mask, s_di_bits, s_controllers)
    IN  /\ Commit(r.m)
        /\ last' = Call("machine_state_start_run", r.ret)
        /\ UNCHANGED <<s_di_bits, tick_pc, s_session, ka_age, gateVars, s_controllers, teleVars, bleVars, busVars, taskVars>>

NextRun ==
    \/ Quiet /\ Advance
    \/ Quiet /\ \E v \in DIValues : UpdateDI(v)
    \/ Quiet /\ TickBody
    \/ Quiet /\ \E pv \in PvValues : Poll(CHAMBER_PID_ADDR, TRUE, pv)
    \/ Quiet /\ CheckExpiry
    \/ MarkStale
    \/ Quiet /\ Disconnect
    \/ Quiet /\ \E id \in SessionIds : CmdOpenSession(id) /\ Unframed
    \/ Quiet /\ \E id \in SessionIds : CmdKeepalive(id) /\ Unframed
    \/ Quiet /\ \E id \in SessionIds, mode \in RunModes, ms \in RunDurations : StartRun(id, mode, ms)

SpecRun == Init /\ [][NextRun]_vars

(* ======================= the state task against the clock ======================= *)
(* state_task is a FreeRTOS task woken every STATE_POLL_INTERVAL_MS by       *)
(* vTaskDelayUntil, and esp_timer_get_time keeps counting: SpecSoak takes    *)
(* the two steps of the loop and the passage of time as weakly fair, next   *)
(* to the poller and the calls that start, stop and force-stop a run.       *)
(* The fair step of the loop body is named by its effect on tick_pc, which  *)
(* only TickBody has.                                                        *)

NextSoak ==
    \/ Advance
    \/ \E v \in DIValues : UpdateDI(v)
    \/ TickBody
    \/ ForceSafe
    \/ \E pv \in PvValues : Poll(CHAMBER_PID_ADDR, TRUE, pv)
    \/ \E id \in SessionIds : CmdOpenSession(id) /\ Unframed
    \/ \E id \in SessionIds, mode \in RunModes, ms \in RunDurations : StartRun(id, mode, ms)
    \/ \E id \in SessionIds, mode \in StopModes : CmdStopRun(id, mode) /\ Unframed

SpecSoak ==
    /\ Init
    /\ [][NextSoak]_vars
    /\ WF_vars(Advance)
    /\ WF_vars(\E v \in DIValues : UpdateDI(v))
    /\ WF_tick_pc(tick_pc = "body" /\ tick_pc' = "read")

(* ======================= command frames on the BLE link ======================= *)

\* acknowledgment frames sent per behaviour (s_tx_seq is a uint16_t that wraps)
MaxTxSeq == 2

\* sequence numbers of the command frames: one below 256, one using both bytes
WireSeqs == {7, 513}

\* a command frame as the client builds it: header, command header (cmd_id, flags), body
CommandFrame(seq, cmd_id, body) ==
    Frame(<< WIRE_PROTO_VERSION, MSG_TYPE_COMMAND >> \o BytesLE(seq, 2) \o BytesLE(4 + Len(body), 2)
          \o BytesLE(cmd_id, 2) \o << 0, 0 >> \o body, TRUE)

\* command id and body: every modelled case with a body of full length, some
\* with a body too short, CLEAR_FAULT (0x0113, no case) and an id outside the enum
CommandBodies ==
    { << CMD_OPEN_SESSION, BytesLE(0, 4) >>, << CMD_OPEN_SESSION, << >> >>,
      << CMD_KEEPALIVE, << 1, 0 >> >>, << CMD_START_RUN, BytesLE(1, 4) >>,
      << CMD_SET_SV, << 1 >> \o BytesLE(250, 2) >>, << CMD_SET_SV, << 1 >> \o BytesLE(65036, 2) >>,
      << CMD_SET_SV, << 4 >> \o BytesLE(250, 2) >>, << CMD_SET_SV, << 1 >> >>,
      << CMD_SET_RELAY, << RO_CHAMBER_LIGHT, RELAY_STATE_ON >> >>,
      << 275, BytesLE(1, 4) >>, << 30583, << >> >> }
    \cup { << c, BytesLE(id, 4) >> : c \in {CMD_KEEPALIVE, CMD_ENABLE_SERVICE_MODE,
                                             CMD_DISABLE_SERVICE_MODE, CMD_CLEAR_ESTOP,
                                             CMD_CLEAR_LATCHED_ALARMS}, id \in SessionIdArgs }
    \cup { << c, BytesLE(id, 4) \o << 0 >> >> : c \in {CMD_START_RUN, CMD_STOP_RUN},
                                                 id \in SessionIdArgs }

\* what the client writes: command frames, and frames handle_command drops (a
\* CRC that does not match, an event frame, a payload shorter than the
\* command header, a frame cut short)
WrittenFrames ==
    { CommandFrame(7, c[1], c[2]) : c \in CommandBodies }
    \cup { CommandFrame(seq, c, BytesLE(1, 4) \o << 0 >>) : seq \in WireSeqs, c \in {CMD_KEEPALIVE, CMD_START_RUN} }
    \cup { Frame(<< WIRE_PROTO_VERSION, MSG_TYPE_COMMAND, 7, 0, 8, 0 >> \o BytesLE(CMD_KEEPALIVE, 2) \o << 0, 0 >> \o BytesLE(1, 4), FALSE),
           Frame(<< WIRE_PROTO_VERSION, 32, 7, 0, 4, 0, 1, 1, 0, 0 >>, TRUE),
           Frame(<< WIRE_PROTO_VERSION, MSG_TYPE_COMMAND, 7, 0, 2, 0, 1, 1 >>, TRUE),
           Frame(<< WIRE_PROTO_VERSION, MSG_TYPE_COMMAND, 7, 0, 8, 0, 1, 1, 0, 0 >>, TRUE) }

\* what the bus calls of one SET_SV return: both succeed and the device holds
\* the value written, one below it or five below it; the write times out;
\* the verifying read times out
BusResults ==
    { [write_err |-> MODBUS_OK, read_err |-> MODBUS_OK, drift |-> d, poll_ok |-> TRUE, pv_x10 |-> 200] :
        d \in {0, -1, -5} }
    \cup { [write_err |-> MODBUS_ERR_TIMEOUT, read_err |-> MODBUS_OK, drift |-> 0, poll_ok |-> FALSE,
            pv_x10 |-> 200],
           [write_err |-> MODBUS_OK, read_err |-> MODBUS_ERR_TIMEOUT, drift |-> 0, poll_ok |-> FALSE,
            pv_x10 |-> 200] }

\* only the SET_SV case reaches the bus: every other frame is paired with one result
BusCalls(f) ==
    IF Len(f) >= 8 /\ FromLE(SubSeq(f, 7, 8)) = CMD_SET_SV THEN BusResults
    ELSE { CHOOSE b \in BusResults : b.drift = 0 /\ b.poll_ok }

\* gatt_chr_access_cb, a write to the command characteristic; it arrives
\* over the connection
WriteCommand(f, new_id, bus) ==
    /\ s_conn_handle # BLE_HS_CONN_HANDLE_NONE
    /\ s_tx_seq < MaxTxSeq
    /\ handle_command(f, new_id, bus)

NextWire ==
    \/ Quiet /\ Connect
    \/ Quiet /\ \E n \in BOOLEAN, i \in BOOLEAN : Subscribe(n, i)
    \/ Quiet /\ Disconnect
    \/ Quiet /\ Advance
    \/ Quiet /\ CheckExpiry
    \/ MarkStale
    \/ Quiet /\ \E f \in WrittenFrames, new_id \in SessionIds : \E bus \in BusCalls(f) : WriteCommand(f, new_id, bus)

SpecWire == InitInterlocksClear /\ [][NextWire]_vars

(* ======================= modbus_master.c: the bus mutex ======================= *)
(* modbus_read_holding, modbus_write_single and modbus_write_multiple have   *)
(* the same shape: xSemaphoreTake(s_bus_mutex, 500 ms), build the request,   *)
(* transact (transmit, wait for the response up to response_timeout_ms),     *)
(* xSemaphoreGive on every path, return.  poll_task calls them through       *)
(* poll_controller, the NimBLE host task through the dispatcher.             *)

\* modbus_master.c:280, 361, 424: pdMS_TO_TICKS(500)
BUS_MUTEX_TIMEOUT_MS == 500

MODBUS_FC_READ_HOLDING == 3
MODBUS_FC_WRITE_SINGLE == 6
MODBUS_FC_WRITE_MULTIPLE == 16

MODBUS_ERR_FRAME == 6

\* time a blocked xSemaphoreTake is seen to advance by
MutexWaitStep == 250

\* xSemaphoreTake that does not look at the holder
xSemaphoreTake_unchecked(mutex, task) == [got |-> TRUE, mutex |-> task]

\* xSemaphoreTake on a mutex: [got, mutex]
xSemaphoreTake(mutex, task) ==
    IF mutex = "free" THEN [got |-> TRUE, mutex |-> task] ELSE [got |-> FALSE, mutex |-> mutex]

\* the function codes a task issues: the poller only reads
BusFcs(task) ==
    IF task = "poll_task" THEN {MODBUS_FC_READ_HOLDING}
    ELSE {MODBUS_FC_READ_HOLDING, MODBUS_FC_WRITE_SINGLE, MODBUS_FC_WRITE_MULTIPLE}

\* what a modbus_* call returns to its task
BusResult(task, fc, err) == [Call(task, IF err = MODBUS_OK THEN ESP_OK ELSE ESP_FAIL) EXCEPT !.cmd = fc, !.status = err]

OffBus ==
    UNCHANGED <<machineVars, s_di_bits, tick_pc, s_relay_state, s_session, ka_age, gateVars,
                s_controllers, teleVars, events, effects, bleVars, taskVars>>

\* a task enters modbus_read_holding / write_single / write_multiple
BusCall(task, fc) ==
    /\ mb_pc[task].at = "idle"
    /\ mb_pc' = [mb_pc EXCEPT ![task] = [at |-> "take", fc |-> fc]]
    /\ mb_wait' = [mb_wait EXCEPT ![task] = 0]
    /\ UNCHANGED <<s_bus_mutex, uart, last>>
    /\ OffBus

\* xSemaphoreTake(s_bus_mutex, pdMS_TO_TICKS(500)): the task gets the mutex,
\* or stays blocked, or after 500 ms returns MODBUS_ERR_BUSY
BusTake(task) ==
    /\ mb_pc[task].at = "take"
    /\ LET r == xSemaphoreTake(s_bus_mutex, task)
       IN  IF r.got
           THEN /\ s_bus_mutex' = r.mutex
                /\ mb_pc' = [mb_pc EXCEPT ![task].at = "held"]
                /\ UNCHANGED <<mb_wait, last>>
           ELSE IF mb_wait[task] < BUS_MUTEX_TIMEOUT_MS
           THEN /\ mb_wait' = [mb_wait EXCEPT ![task] = @ + MutexWaitStep]
                /\ UNCHANGED <<s_bus_mutex, mb_pc, last>>
           ELSE /\ mb_pc' = [mb_pc EXCEPT ![task] = [at |-> "idle", fc |-> 0]]
                /\ last' = BusResult(task, mb_pc[task].fc, MODBUS_ERR_BUSY)
                /\ UNCHANGED <<s_bus_mutex, mb_wait>>
    /\ UNCHANGED uart
    /\ OffBus

\* transact: uart_write_bytes puts the request on the line; if it does not
\* write the whole frame the call gives the mutex and returns MODBUS_ERR_FRAME
BusTransmit(task, written) ==
    /\ mb_pc[task].at = "held"
    /\ IF written
       THEN /\ uart' = uart \cup {[task |-> task, fc |-> mb_pc[task].fc]}
            /\ mb_pc' = [mb_pc EXCEPT ![task].at = "wait"]
            /\ UNCHANGED <<s_bus_mutex, last>>
       ELSE /\ s_bus_mutex' = "free"
            /\ mb_pc' = [mb_pc EXCEPT ![task] = [at |-> "idle", fc |-> 0]]
            /\ last' = BusResult(task, mb_pc[task].fc, MODBUS_ERR_FRAME)
            /\ UNCHANGED uart
    /\ UNCHANGED mb_wait
    /\ OffBus

\* transact: the response wait ends with a response or after
\* response_timeout_ms; the call gives the mutex and returns
BusReturn(task, err) ==
    /\ mb_pc[task].at = "wait"
    /\ uart' = { r \in uart : r.task # task }
    /\ s_bus_mutex' = "free"
    /\ mb_pc' = [mb_pc EXCEPT ![task] = [at |-> "idle", fc |-> 0]]
    /\ last' = BusResult(task, mb_pc[task].fc, err)
    /\ UNCHANGED mb_wait
    /\ OffBus

NextBus ==
    \/ \E task \in BusTasks : \E fc \in BusFcs(task) : BusCall(task, fc)
    \/ \E task \in BusTasks : BusTake(task)
    \/ \E task \in BusTasks, written \in BOOLEAN : BusTransmit(task, written)
    \/ \E task \in BusTasks, err \in {MODBUS_OK, MODBUS_ERR_TIMEOUT} : BusReturn(task, err)

SpecBus == InitInterlocksClear /\ [][NextBus]_vars

(* ======================= pid_controller.c: the poll task ======================= *)

\* PID_CONFIG_DEFAULT: .count
PID_CONFIG_COUNT == 3

NextIdx_clamped(idx, count) == IF idx + 1 < count THEN idx + 1 ELSE idx

\* poll_task: "Move to next controller (round-robin)"
NextIdx(idx, count) == (idx + 1) % count

\* poll_task: "Check for stale data on other controllers"; aged = the records whose age passed the threshold
StaleCheck(ctrls, aged) ==
    [a \in DOMAIN ctrls |->
        IF a \in aged /\ ctrls[a].state = PID_STATE_ONLINE
        THEN [ctrls[a] EXCEPT !.state = PID_STATE_STALE]
        ELSE ctrls[a]]

\* the window of the latest PID_CONFIG_COUNT iterations
Window(log, idx) == IF Len(log) < PID_CONFIG_COUNT THEN Append(log, idx) ELSE Append(Tail(log), idx)

\* the failed polls of a controller in a row, counted to MaxErrorCount
Fails(fails, addr, ok) == [fails EXCEPT ![addr] = IF ok THEN 0 ELSE Min(@ + 1, MaxErrorCount)]

OffPoll ==
    UNCHANGED <<machineVars, s_di_bits, tick_pc, s_relay_state, s_session, ka_age, gateVars,
                teleVars, events, effects, bleVars, busVars, relay_pc, wire_buf, wire_hdr, api_pc,
                lockVars>>

\* one iteration of poll_task's loop; the record at index i has address i + 1
PollIteration(ok, pv_x10, aged) ==
    LET addr == current_idx + 1
        polled == IF current_idx < PID_CONFIG_COUNT
                  THEN [s_controllers EXCEPT ![addr] = poll_controller(@, ok, pv_x10)]
                  ELSE s_controllers
    IN  /\ (ok => addr \notin aged)
        /\ s_controllers' = StaleCheck(polled, aged)
        /\ current_idx' = NextIdx(current_idx, PID_CONFIG_COUNT)
        /\ poll_log' = Window(poll_log, current_idx)
        /\ poll_fails' = Fails(poll_fails, addr, ok)
        /\ last' = [Call("poll_task", IF ok THEN ESP_OK ELSE ESP_FAIL) EXCEPT !.cmd = addr]
        /\ OffPoll

\* pid_controller_force_poll, called from the command dispatcher
ForcePoll(addr, ok, pv_x10) ==
    /\ IF addr \in 1..PID_CONFIG_COUNT
       THEN /\ s_controllers' = [s_controllers EXCEPT ![addr] = poll_controller(@, ok, pv_x10)]
            /\ poll_fails' = Fails(poll_fails, addr, ok)
            /\ last' = [Call("pid_controller_force_poll", IF ok THEN ESP_OK ELSE ESP_FAIL) EXCEPT !.cmd = addr]
       ELSE /\ UNCHANGED <<s_controllers, poll_fails>>
            /\ last' = [Call("pid_controller_force_poll", ESP_ERR_NOT_FOUND) EXCEPT !.cmd = addr]
    /\ UNCHANGED <<current_idx, poll_log>>
    /\ OffPoll

NextPoll ==
    \/ \E ok \in BOOLEAN, pv \in {200}, aged \in SUBSET (1..PID_CONFIG_COUNT) : PollIteration(ok, pv, aged)
    \/ \E addr \in 1..(PID_CONFIG_COUNT + 1), ok \in BOOLEAN, pv \in {-500} : ForcePoll(addr, ok, pv)

SpecPoll == InitInterlocksClear /\ [][NextPoll]_vars

(* ======================= relay_ctrl.c: calls from two tasks ======================= *)

\* the calls a task makes: <<"set", relay_index, state>> or <<"set_mask", mask, values>>
RelayCalls(task) ==
    IF task = "state_task"
    THEN {<<"set", RO_MOTOR_START, RELAY_STATE_ON>>, <<"set", RO_MOTOR_START, RELAY_STATE_OFF>>,
          <<"set", RO_MAIN_CONTACTOR, RELAY_STATE_ON>>}
    ELSE {<<"set", RO_CHAMBER_LIGHT, RELAY_STATE_TOGGLE>>, <<"set_mask", 240, 240>>,
          <<"set_mask", 15, 5>>, <<"set_mask", 0, 255>>}

\* the bits a call is about: bit_mask of relay_ctrl_set, mask of relay_ctrl_set_mask
CallMask(call) == IF call[1] = "set" THEN Pow2(call[2] - 1) ELSE call[2]

\* new_state as the call computes it from the cached byte it reads
CallNewState(relay, call) ==
    IF call[1] = "set" THEN relay_ctrl_set(relay, call[2], call[3])
    ELSE relay_ctrl_set_mask(relay, call[2], call[3])

OffRelay ==
    UNCHANGED <<machineVars, s_di_bits, tick_pc, s_session, ka_age, gateVars, s_controllers,
                teleVars, events, effects, bleVars, busVars, current_idx, poll_log, poll_fails,
                wire_buf, wire_hdr, api_pc, lockVars>>

\* relay_ctrl_set / relay_ctrl_set_mask up to the I2C write: new_state computed from s_relay_state;
\* relay_ctrl_set_mask returns at once when mask == 0
RelayBegin(task, call) ==
    /\ relay_pc[task].at = "idle"
    /\ IF call[1] = "set_mask" /\ call[2] = 0
       THEN /\ UNCHANGED relay_pc
            /\ last' = [Call(task, ESP_OK) EXCEPT !.cmd = 0]
       ELSE /\ relay_pc' = [relay_pc EXCEPT ![task] =
                    [at |-> "write", mask |-> CallMask(call), new_state |-> CallNewState(s_relay_state, call)]]
            /\ last' = NoCall
    /\ UNCHANGED s_relay_state
    /\ OffRelay

\* tca9554_write_reg returns; s_relay_state = new_state when it returned ESP_OK
RelayEnd(task, ok) ==
    /\ relay_pc[task].at = "write"
    /\ s_relay_state' = IF ok THEN relay_pc[task].new_state ELSE s_relay_state
    /\ relay_pc' = [relay_pc EXCEPT ![task] = [at |-> "idle", mask |-> 0, new_state |-> 0]]
    /\ last' = [Call(task, IF ok THEN ESP_OK ELSE ESP_FAIL) EXCEPT !.cmd = relay_pc[task].mask]
    /\ OffRelay

NextRelay ==
    \/ \E task \in RelayTasks : \E call \in RelayCalls(task) : RelayBegin(task, call)
    \/ \E task \in RelayTasks, ok \in BOOLEAN : RelayEnd(task, ok)

SpecRelay == InitInterlocksClear /\ [][NextRelay]_vars

(* ======================= wire_protocol.c: build, damage, parse ======================= *)

\* msg_type, seq, payload handed to wire_build_frame: the message types, sequence numbers with
\* one and two bytes, payloads of 0, 1 and 3 bytes, and payloads of 512 and 513 bytes
FrameInputs ==
    ({MSG_TYPE_COMMAND, MSG_TYPE_COMMAND_ACK} \X {101, 513} \X {<< >>, << 125 >>, << 1, 2, 255 >>})
    \cup {<<MSG_TYPE_COMMAND, 7, [i \in 1..n |-> i % 256]>> : n \in {WIRE_MAX_PAYLOAD, WIRE_MAX_PAYLOAD + 1}}

\* buffers that no builder made: bytes after the CRC, the last byte missing, protocol version 2,
\* a declared length of 513 (each with the CRC of its bytes), a CRC one bit off, 3 bytes, none
ReceivedBuffers ==
    { Frame(<< WIRE_PROTO_VERSION, MSG_TYPE_COMMAND, 7, 0, 1, 0, 9 >>, TRUE) \o << 0 >>,
      SubSeq(Frame(<< WIRE_PROTO_VERSION, MSG_TYPE_COMMAND, 7, 0, 1, 0, 9 >>, TRUE), 1, 8),
      Frame(<< 2, MSG_TYPE_COMMAND, 7, 0, 0, 0 >>, TRUE),
      Frame(<< WIRE_PROTO_VERSION, MSG_TYPE_COMMAND, 7, 0, 1, 2 >> \o [i \in 1..(WIRE_MAX_PAYLOAD + 1) |-> 0], TRUE),
      Frame(<< WIRE_PROTO_VERSION, MSG_TYPE_COMMAND, 7, 0, 0, 0 >>, FALSE),
      << WIRE_PROTO_VERSION, MSG_TYPE_COMMAND, 7 >>,
      << >> }

OffWire ==
    UNCHANGED <<machineVars, s_di_bits, tick_pc, s_relay_state, s_session, ka_age, gateVars,
                s_controllers, teleVars, events, effects, last, bleVars, busVars,
                current_idx, poll_log, poll_fails, relay_pc, api_pc, lockVars>>

\* the buffer is free: nothing in it, or what was in it has been parsed
BufferFree == wire_buf.made = "empty" \/ wire_hdr # NoHeader

\* wire_build_frame into a buffer of WIRE_MAX_FRAME_SIZE bytes
BuildFrame(msg_type, seq, payload) ==
    /\ BufferFree
    /\ wire_buf' = [bytes |-> wire_build_frame(WIRE_MAX_FRAME_SIZE, msg_type, seq, payload),
                    msg_type |-> msg_type, seq |-> seq, payload |-> payload, made |-> "built"]
    /\ wire_hdr' = NoHeader
    /\ OffWire

\* one bit of a built frame changes on the way: bit (bit % 8) of byte (bit \div 8) + 1
FlipBit(bit) ==
    /\ wire_buf.made = "built"
    /\ wire_hdr = NoHeader
    /\ bit < 8 * Len(wire_buf.bytes)
    /\ wire_buf' = [wire_buf EXCEPT !.bytes[(bit \div 8) + 1] = BitToggle(@, bit % 8), !.made = "flipped"]
    /\ wire_hdr' = NoHeader
    /\ OffWire

\* bytes arrive that no builder made
ReceiveBuffer(buf) ==
    /\ BufferFree
    /\ wire_buf' = [bytes |-> buf, msg_type |-> 0, seq |-> 0, payload |-> << >>, made |-> "received"]
    /\ wire_hdr' = NoHeader
    /\ OffWire

\* wire_parse_frame on the buffer
ParseFrame ==
    /\ wire_buf.made # "empty"
    /\ wire_hdr = NoHeader
    /\ wire_hdr' = wire_parse_frame(wire_buf.bytes)
    /\ UNCHANGED wire_buf
    /\ OffWire

NextFrame ==
    \/ \E in \in FrameInputs : BuildFrame(in[1], in[2], in[3])
    \/ \E bit \in 0..(8 * MaxFlipBytes - 1) : FlipBit(bit)
    \/ \E buf \in ReceivedBuffers : ReceiveBuffer(buf)
    \/ ParseFrame

SpecFrame == InitInterlocksClear /\ [][NextFrame]_vars

(* ======================= machine_state.c: a call and the tasks beside it ======================= *)
(* A machine_state_start_run / machine_state_stop_run call of the command task in two steps,   *)
(* the look at the session and the part under s_mutex, with the state task and the telemetry   *)
(* task running beside it.                                                                      *)

OffCall ==
    UNCHANGED <<s_di_bits, tick_pc, s_session, ka_age, gateVars, s_controllers, teleVars, bleVars,
                busVars, current_idx, poll_log, poll_fails, relay_pc, wire_buf, wire_hdr, lockVars>>

\* the call up to xSemaphoreTake: if (!session_mgr_is_valid(session_id)) return ESP_ERR_INVALID_ARG
CallCheck(op, session_id, mode) ==
    /\ api_pc.at = "idle"
    /\ IF session_mgr_is_valid(s_session, session_id)
       THEN /\ api_pc' = [at |-> "take", op |-> op, session_id |-> session_id, mode |-> mode]
            /\ last' = NoCall
       ELSE /\ api_pc' = api_pc
            /\ last' = Call(op, ESP_ERR_INVALID_ARG)
    /\ UNCHANGED <<machineVars, s_relay_state, events, effects>>
    /\ OffCall

\* the call from xSemaphoreTake to xSemaphoreGive and its return
CallLocked ==
    /\ api_pc.at = "take"
    /\ LET r == IF api_pc.op = "machine_state_start_run"
                THEN start_run_locked(M, api_pc.mode, 0, 0, s_session, s_caps, s_gate_enable_mask,
                                      s_di_bits, s_controllers)
                ELSE stop_run_locked(M, api_pc.mode)
       IN  /\ Commit(r.m)
           /\ last' = Call(api_pc.op, r.ret)
    /\ api_pc' = NoApiCall
    /\ OffCall

\* the command task is between two commands
Dispatching == api_pc.at = "idle"

NextCall ==
    \/ AdvanceLease
    \/ CheckExpiry
    \/ MarkStale
    \/ \E v \in DIValues : UpdateDI(v)
    \/ TickBody
    \/ Poll(CHAMBER_PID_ADDR, TRUE, PRECOOL_TARGET_TEMP_X10)
    \/ Dispatching /\ \E id \in SessionIds : CmdOpenSession(id) /\ Unframed
    \/ \E id \in SessionIds, mode \in RunModes : CallCheck("machine_state_start_run", id, mode)
    \/ \E id \in SessionIds, mode \in StopModes : CallCheck("machine_state_stop_run", id, mode)
    \/ CallLocked

SpecCall == Init /\ [][NextCall]_vars

(* ======================= the three mutexes ======================= *)
(* SpecLock follows each task through the xSemaphoreTake and xSemaphoreGive  *)
(* calls of one operation, in the order the code makes them, and nothing      *)
(* else: s_mutex and s_data_mutex are taken with portMAX_DELAY, s_bus_mutex   *)
(* with a 500 ms timeout.  xSemaphoreGive makes the blocked task ready, and    *)
(* every task blocks between two operations (vTaskDelayUntil in the three     *)
(* periodic tasks, the event queue in the host task), so a task whose take    *)
(* can succeed again and again does take: strong fairness on each task.       *)

Take(mutex) == [op |-> "take", mutex |-> mutex, on_busy |-> 0]
Give(mutex) == [op |-> "give", mutex |-> mutex, on_busy |-> 0]
\* xSemaphoreTake(s_bus_mutex, 500 ms); on_busy is the call the function goes on with
\* after MODBUS_ERR_BUSY
TakeBus(on_busy) == [op |-> "timed_take", mutex |-> "s_bus_mutex", on_busy |-> on_busy]

\* pid_controller_get / pid_controller_get_by_addr, n times in a row
RECURSIVE Reads(_)
Reads(n) == IF n = 0 THEN << >> ELSE << Take("s_data_mutex"), Give("s_data_mutex") >> \o Reads(n - 1)

\* poll_controller: read 0..5 (an error returns), read MODE (an error goes on), data update
PollPaths ==
    { << TakeBus(3), Give("s_bus_mutex") >>,
      << TakeBus(7), Give("s_bus_mutex"), TakeBus(5), Give("s_bus_mutex"),
         Take("s_data_mutex"), Give("s_data_mutex") >> }

\* the mutex calls with a telemetry path that reads the machine state inside the data mutex
LockPaths_state_inside_data(task) ==
    CASE task = "state_task" ->
            { << Take("s_mutex"), Give("s_mutex") >>,
              << Take("s_mutex"), Take("s_data_mutex"), Give("s_data_mutex"), Give("s_mutex") >> }
      [] task = "telemetry_task" ->
            { << Take("s_data_mutex"), Take("s_mutex"), Give("s_mutex"), Give("s_data_mutex") >> }
      [] task = "poll_task" -> PollPaths
      [] OTHER -> { << Take("s_mutex"), Give("s_mutex") >> }

\* the mutex calls of one operation of a task, in program order
LockPaths(task) ==
    CASE task = "state_task" ->
            \* loop body; in PRECOOL get_chamber_temp calls pid_controller_get_by_addr
            { << Take("s_mutex"), Give("s_mutex") >>,
              << Take("s_mutex"), Take("s_data_mutex"), Give("s_data_mutex"), Give("s_mutex") >> }
      [] task = "telemetry_task" ->
            \* pid_controller_any_alarm; when subscribed, pid_controller_get for the
            \* controllers and machine_state_get_run_info
            { << Take("s_data_mutex"), Give("s_data_mutex") >>,
              << Take("s_data_mutex"), Give("s_data_mutex") >> \o Reads(MaxLockReads)
                 \o << Take("s_mutex"), Give("s_mutex") >> }
      [] task = "poll_task" -> PollPaths
      [] OTHER ->
            \* stop_run, service, clear: the state mutex alone
            { << Take("s_mutex"), Give("s_mutex") >>,
            \* start_run: the safety gates read controller records under the state mutex
              << Take("s_mutex") >> \o Reads(MaxLockReads) \o << Give("s_mutex") >>,
            \* one modbus call: autotune, read_params, write_params, alarm limits
              << TakeBus(3), Give("s_bus_mutex") >>,
            \* set_sv, set_mode, write_register: write (an error returns), read back
              << TakeBus(5), Give("s_bus_mutex"), TakeBus(5), Give("s_bus_mutex") >> }
            \* force_poll, after set_sv and set_mode and for REQUEST_PV_SV_REFRESH
            \cup PollPaths

\* the holder of a mutex
Holder(mutex) ==
    CASE mutex = "s_mutex" -> s_mutex
      [] mutex = "s_data_mutex" -> s_data_mutex
      [] OTHER -> s_bus_mutex

SetHolder(mutex, holder) ==
    /\ s_mutex' = IF mutex = "s_mutex" THEN holder ELSE s_mutex
    /\ s_data_mutex' = IF mutex = "s_data_mutex" THEN holder ELSE s_data_mutex
    /\ s_bus_mutex' = IF mutex = "s_bus_mutex" THEN holder ELSE s_bus_mutex

\* the task goes on with call i of its path, or returns when there is none
GoOn(pc, i) ==
    IF i > Len(pc.path) THEN NoLockCall ELSE [pc EXCEPT !.i = i, !.waited = 0]

OffLock ==
    UNCHANGED <<machineVars, s_di_bits, tick_pc, s_relay_state, s_session, ka_age, gateVars,
                s_controllers, teleVars, events, effects, last, bleVars, mb_pc, mb_wait, uart,
                current_idx, poll_log, poll_fails, relay_pc, wire_buf, wire_hdr, api_pc>>

\* a task enters an operation
LockCall(task, path) ==
    /\ lock_pc[task].i = 0
    /\ lock_pc' = [lock_pc EXCEPT ![task] = [NoLockCall EXCEPT !.path = path, !.i = 1]]
    /\ UNCHANGED <<s_mutex, s_data_mutex, s_bus_mutex>>
    /\ OffLock

\* the next xSemaphoreTake or xSemaphoreGive of a task; a take with portMAX_DELAY on a
\* held mutex leaves the task blocked (no step), a take on the bus mutex counts the wait
\* and gives up after 500 ms
LockStep(task) ==
    LET pc == lock_pc[task]
        call == pc.path[pc.i]
        r == xSemaphoreTake(Holder(call.mutex), task)
    IN  /\ pc.i # 0
        /\ IF call.op = "give"
           THEN /\ SetHolder(call.mutex, "free")
                /\ lock_pc' = [lock_pc EXCEPT ![task] = GoOn(pc, pc.i + 1)]
           ELSE IF r.got
           THEN /\ SetHolder(call.mutex, r.mutex)
                /\ lock_pc' = [lock_pc EXCEPT ![task] = GoOn(pc, pc.i + 1)]
           ELSE /\ call.op = "timed_take"
                /\ lock_pc' = [lock_pc EXCEPT ![task] =
                                    IF pc.waited < BUS_MUTEX_TIMEOUT_MS
                                    THEN [pc EXCEPT !.waited = @ + MutexWaitStep]
                                    ELSE GoOn(pc, call.on_busy)]
                /\ UNCHANGED <<s_mutex, s_data_mutex, s_bus_mutex>>
        /\ OffLock

NextLock ==
    \/ \E task \in LockTasks : \E path \in LockPaths(task) : LockCall(task, path)
    \/ \E task \in LockTasks : LockStep(task)

SpecLock == InitInterlocksClear /\ [][NextLock]_vars /\ \A task \in LockTasks : SF_vars(LockStep(task))

(* ======================= properties ======================= *)

SafeStates == {MACHINE_STATE_IDLE, MACHINE_STATE_E_STOP, MACHINE_STATE_FAULT}

\* the step is the loop body of state_task
TickStep == tick_pc = "body" /\ tick_pc' = "read"

\* the cached input byte has DI1 low, i.e. the E-Stop is pressed
EstopInputLow == s_di_bits % 2 = 0

\* the cached input byte has DI2 low, i.e. the door is open
DoorInputLow == (s_di_bits \div 2) % 2 = 0

\* the state-changed events among the events of the last operation
Transitions == { events[i][3] : i \in { j \in DOMAIN events : events[j][1] = EVENT_STATE_CHANGED } }

\* C1: whenever a step takes the machine into IDLE, E_STOP or FAULT from
\* another state, all 8 relay output bits are 0 once the step (the entry
\* action included) is complete.
C1_EntryLeavesAllRelaysOff ==
    [][(s_state' # s_state /\ s_state' \in SafeStates) => s_relay_state' = 0]_vars

C3_SafeStatesHaveRelaysOff ==
    s_state \in SafeStates => s_relay_state = 0

\* C4: a step enters PRECOOL only from IDLE and RUNNING only from PRECOOL,
\* and so does every state-changed event a step emits.
C4_RunBeginsFromIdle ==
    [][/\ (s_state' = MACHINE_STATE_PRECOOL /\ s_state # MACHINE_STATE_PRECOOL)
            => s_state = MACHINE_STATE_IDLE
       /\ (s_state' = MACHINE_STATE_RUNNING /\ s_state # MACHINE_STATE_RUNNING)
            => s_state = MACHINE_STATE_PRECOOL
       /\ \A t \in Transitions' :
            /\ t[2] = MACHINE_STATE_PRECOOL => t[1] = MACHINE_STATE_IDLE
            /\ t[2] = MACHINE_STATE_RUNNING => t[1] = MACHINE_STATE_PRECOOL]_vars

\* C4 witness: a tick has just taken the machine from PRECOOL to RUNNING
C4_Witness ==
    /\ last.op = "tick"
    /\ s_state = MACHINE_STATE_RUNNING
    /\ <<MACHINE_STATE_PRECOOL, MACHINE_STATE_RUNNING>> \in Transitions

\* the session id of a command names the live session
ValidSession(id) == s_session.state = SESSION_STATE_LIVE /\ s_session.session_id = id

\* the safety-gate start decision names a blocking gate
StartBlocked ==
    safety_gate_can_start_run(s_caps, s_gate_enable_mask, s_di_bits, s_session, s_controllers) # -1

\* C5: start_run returns INVALID_ARG exactly when the session id is not
\* valid, otherwise INVALID_STATE exactly when the state is not IDLE,
\* otherwise NOT_ALLOWED exactly when the start decision is blocked; a
\* rejected call leaves state, run parameters, timers and relays as they
\* were; IDLE -> PRECOOL happens exactly when none of the three holds.
C5_StartRunRejections ==
    [][\A id \in SessionIdArgs, mode \in RunModes :
          (last'.op = "START_RUN" /\ CmdStartRun(id, mode)) =>
            LET valid == ValidSession(id)
                idle == s_state = MACHINE_STATE_IDLE
            IN  /\ ~valid <=> last'.ret = ESP_ERR_INVALID_ARG
                /\ (valid /\ ~idle) <=> last'.ret = ESP_ERR_INVALID_STATE
                /\ (valid /\ idle /\ StartBlocked) <=> last'.ret = ESP_ERR_NOT_ALLOWED
                /\ last'.ret # ESP_OK =>
                      /\ UNCHANGED <<machineVars, s_relay_state>>
                      /\ events' = << >>
                /\ (valid /\ idle /\ ~StartBlocked) <=>
                      (s_state = MACHINE_STATE_IDLE /\ s_state' = MACHINE_STATE_PRECOOL)
                /\ (valid /\ idle /\ ~StartBlocked) =>
                      (last'.ret = ESP_OK /\ s_run_mode' = mode)]_vars

\* C5 witness: a start with a valid session in IDLE has just been refused by the gate
C5_Witness ==
    /\ last.op = "START_RUN"
    /\ last.ret = ESP_ERR_NOT_ALLOWED
    /\ s_state = MACHINE_STATE_IDLE
    /\ s_session.state = SESSION_STATE_LIVE
    /\ s_relay_state = 0

\* the acknowledgment is REJECTED_POLICY, detail 0x0002, one body byte with bit 0 set
AckIsEstopPolicy(ack) ==
    /\ ack.status = CMD_STATUS_REJECTED_POLICY
    /\ ack.detail = 2
    /\ Len(ack.body) = 1
    /\ ack.body[1] % 2 = 1

\* C6 as stated: every START_RUN with a valid session id that arrives while
\* the E-Stop input is asserted is acknowledged REJECTED_POLICY, detail
\* 0x0002, with a one-byte body whose bit 0 is set.
C6_EstopStartAckAsStated ==
    [][\A id \in SessionIdArgs, mode \in RunModes :
          (last'.op = "START_RUN" /\ EstopInputLow /\ ValidSession(id) /\ CmdStartRun(id, mode)) => AckIsEstopPolicy(last')]_vars

\* C6 amended: a START_RUN with a valid session id that arrives while the
\* E-Stop input is asserted is acknowledged REJECTED_POLICY, detail 0x0002,
\* body bit 0 set, only while the machine is still in IDLE; in any other
\* state (E_STOP, once the state task has run) it is acknowledged NOT_READY,
\* detail 0, without a body.  Either way nothing starts.
C6_EstopStartAck ==
    [][\A id \in SessionIdArgs, mode \in RunModes :
          (last'.op = "START_RUN" /\ EstopInputLow /\ ValidSession(id) /\ CmdStartRun(id, mode)) =>
            /\ IF s_state = MACHINE_STATE_IDLE
               THEN AckIsEstopPolicy(last')
               ELSE /\ last'.status = CMD_STATUS_NOT_READY
                    /\ last'.detail = 0
                    /\ last'.body = << >>
            /\ UNCHANGED <<machineVars, s_relay_state>>]_vars

\* C6 witness: the policy rejection, given before the state task has acted
\* on the asserted E-Stop
C6_Witness ==
    /\ last.op = "START_RUN"
    /\ AckIsEstopPolicy(last)
    /\ EstopInputLow
    /\ s_state = MACHINE_STATE_IDLE
    /\ s_session.state = SESSION_STATE_LIVE

\* safety_gate_check of a gate in the current configuration
GateStatus(g) ==
    safety_gate_check(g, s_caps, s_gate_enable_mask, s_di_bits, s_session, s_controllers)

\* the two gates of controller pid_id when its capability is REQUIRED
RequiredPidGates(pid_id) ==
    IF s_caps[SUBSYS_PID1 + (pid_id - 1)] = CAP_REQUIRED
    THEN << GATE_PID1_ONLINE + (pid_id - 1), GATE_PID1_NO_PROBE_ERR + (pid_id - 1) >>
    ELSE << >>

\* the gates the start decision consults, in priority order
StartSequence ==
    << GATE_ESTOP >>
    \o (IF s_caps[SUBSYS_DI_DOOR] # CAP_NOT_PRESENT THEN << GATE_DOOR_CLOSED >> ELSE << >>)
    \o << GATE_HMI_LIVE >>
    \o RequiredPidGates(1) \o RequiredPidGates(2) \o RequiredPidGates(3)

\* positions of StartSequence whose gate is blocking
BlockingPositions == { i \in DOMAIN StartSequence : GateStatus(StartSequence[i]) = GATE_STATUS_BLOCKING }

\* the first blocking gate of StartSequence, -1 if there is none
FirstBlocking ==
    IF BlockingPositions = {} THEN -1
    ELSE StartSequence[CHOOSE i \in BlockingPositions : \A j \in BlockingPositions : i <= j]

\* C7: the start decision is the first blocking gate in the order E-Stop,
\* door (if the door capability is not NOT_PRESENT), HMI, then online and
\* probe-error gate of each REQUIRED controller; it is "allowed" exactly when
\* none of them blocks, and a call reports just that.
C7_StartDecisionOrder ==
    /\ safety_gate_can_start_run(s_caps, s_gate_enable_mask, s_di_bits, s_session,
                                 s_controllers) = FirstBlocking
    /\ last.op = "safety_gate_can_start_run" =>
            /\ last.detail = FirstBlocking
            /\ last.status = 1 <=> BlockingPositions = {}

\* C7 witness: controller 2 REQUIRED with a probe error and controller 3
\* REQUIRED and offline: the decision names controller 2's probe gate (7),
\* not controller 3's online gate (5); controller 1 is OPTIONAL
C7_Witness ==
    /\ last.op = "safety_gate_can_start_run"
    /\ last.detail = GATE_PID2_NO_PROBE_ERR
    /\ last.status = 0
    /\ s_caps[SUBSYS_PID1] = CAP_OPTIONAL
    /\ GateStatus(GATE_PID3_ONLINE) = GATE_STATUS_BLOCKING

\* C8: a gate is blocking only if its condition fails, it is enabled and
\* its subsystem is not NOT_PRESENT; a bypassed gate other than E-Stop is
\* BYPASSED (counted as passing in the status mask); the E-Stop gate reads
\* the same with its enable bit cleared, and blocks exactly when the E-Stop
\* input is asserted.
C8_BlockingOnlyWhenApplicable ==
    /\ \A g \in 0..(GATE_MAX - 1) :
          /\ GateStatus(g) = GATE_STATUS_BLOCKING =>
                /\ ~check_gate_condition(g, s_di_bits, s_session, s_controllers)
                /\ Bit(s_gate_enable_mask, g) = 1
                /\ (related_subsys(g) < SUBSYS_MAX => s_caps[related_subsys(g)] # CAP_NOT_PRESENT)
          /\ (g # GATE_ESTOP /\ Bit(s_gate_enable_mask, g) = 0) =>
                /\ GateStatus(g) = GATE_STATUS_BYPASSED
                /\ Bit(safety_gate_get_status_mask(s_caps, s_gate_enable_mask, s_di_bits,
                                                   s_session, s_controllers), g) = 1
          /\ (last.op = "safety_gate_check" /\ last.cmd = g) => last.status = GateStatus(g)
    /\ safety_gate_check(GATE_ESTOP, s_caps, BitClear(s_gate_enable_mask, GATE_ESTOP), s_di_bits,
                         s_session, s_controllers) = GateStatus(GATE_ESTOP)
    /\ GateStatus(GATE_ESTOP) = GATE_STATUS_BLOCKING <=> EstopInputLow

\* C8 witness: the door is open, the door gate is bypassed and a check of
\* it has just returned BYPASSED
C8_Witness ==
    /\ last.op = "safety_gate_check"
    /\ last.cmd = GATE_DOOR_CLOSED
    /\ last.status = GATE_STATUS_BYPASSED
    /\ DoorInputLow
    /\ s_caps[SUBSYS_DI_DOOR] = CAP_REQUIRED

\* C9: the E-Stop gate's enable bit is set and the E-Stop capability is
\* REQUIRED in every reachable state; a call that would disable the E-Stop
\* gate, or set the E-Stop capability to any level, returns INVALID_ARG and
\* leaves table, mask and stored bytes as they were.
C9_EstopGateFixed ==
    /\ [](Bit(s_gate_enable_mask, GATE_ESTOP) = 1 /\ s_caps[SUBSYS_DI_ESTOP] = CAP_REQUIRED)
    /\ [][/\ SetEnabled(GATE_ESTOP, FALSE) =>
                (last'.ret = ESP_ERR_INVALID_ARG /\ UNCHANGED gateVars)
           /\ \A level \in GateLevels :
                SetCapability(SUBSYS_DI_ESTOP, level) =>
                    (last'.ret = ESP_ERR_INVALID_ARG /\ UNCHANGED gateVars)]_vars

\* C9 witness: a request to bypass the E-Stop gate has just been refused
\* while another gate is bypassed and a capability has been changed
C9_Witness ==
    /\ last.op = "safety_gate_set_enabled"
    /\ last.cmd = GATE_ESTOP
    /\ last.detail = 0
    /\ last.ret = ESP_ERR_INVALID_ARG
    /\ Bit(s_gate_enable_mask, GATE_DOOR_CLOSED) = 0
    /\ s_caps[SUBSYS_PID2] = CAP_NOT_PRESENT

C11_ClearEstopNeedsRelease ==
    [][\A id \in SessionIdArgs :
          (last'.op = "CLEAR_ESTOP" /\ CmdClearEstop(id)) =>
            /\ EstopInputLow =>
                  /\ last'.ret # ESP_OK
                  /\ last'.status # CMD_STATUS_OK
                  /\ UNCHANGED <<machineVars, s_relay_state>>
            /\ s_state' # s_state =>
                  /\ s_state = MACHINE_STATE_E_STOP
                  /\ s_state' = MACHINE_STATE_IDLE
                  /\ ~EstopInputLow
                  /\ last'.ret = ESP_OK
            /\ (s_state = MACHINE_STATE_E_STOP /\ ValidSession(id) /\ ~EstopInputLow) =>
                  s_state' = MACHINE_STATE_IDLE]_vars

\* C11 witness: a CLEAR_ESTOP with a valid session has just been refused in
\* E_STOP because the input is still active
C11_Witness ==
    /\ last.op = "CLEAR_ESTOP"
    /\ last.ret = ESP_ERR_INVALID_STATE
    /\ last.detail = 3
    /\ s_state = MACHINE_STATE_E_STOP
    /\ EstopInputLow
    /\ s_session.state = SESSION_STATE_LIVE

\* the step is an accepted fault-clear command
FaultClearAccepted ==
    /\ last'.op = "CLEAR_LATCHED_ALARMS"
    /\ last'.ret = ESP_OK
    /\ \E id \in SessionIdArgs : CmdClearLatchedAlarms(id)

\* C12 as stated: the only step that takes the machine out of FAULT is an
\* accepted fault-clear command.
C12_FaultLatchedAsStated ==
    [][(s_state = MACHINE_STATE_FAULT /\ s_state' # MACHINE_STATE_FAULT) => FaultClearAccepted]_vars

\* C12 amended: the machine leaves FAULT only by an accepted fault-clear
\* command, which takes it to IDLE, or by a tick of the state task that finds
\* the E-Stop input asserted, which takes it to E_STOP; no other tick, passage
\* of time, input change or command moves it out of FAULT.
C12_FaultLatched ==
    [][(s_state = MACHINE_STATE_FAULT /\ s_state' # MACHINE_STATE_FAULT) =>
          \/ FaultClearAccepted /\ s_state' = MACHINE_STATE_IDLE
          \/ TickStep /\ EstopInputLow /\ s_state' = MACHINE_STATE_E_STOP]_vars

\* C12 witness: the machine is in FAULT after a tick with the E-Stop
\* released left it there while a run-stop command was refused
C12_Witness ==
    /\ s_state = MACHINE_STATE_FAULT
    /\ last.op = "STOP_RUN"
    /\ last.ret = ESP_ERR_INVALID_STATE
    /\ s_session.state = SESSION_STATE_LIVE
    /\ ~EstopInputLow
    /\ state_age = 0
    /\ tick_pc = "body"

\* lease + grace, the age past which a refresh no longer counts
Deadline == SESSION_DEFAULT_LEASE_MS + SESSION_GRACE_PERIOD_MS

\* is_valid(id) now
Valid(id) == session_mgr_is_valid(s_session, id)

\* is_valid(id) after the step
ValidNext(id) == session_mgr_is_valid(s_session', id)

\* C13 as stated: in every reachable state is_valid(id) holds exactly when the
\* session record carries id and its last accepted refresh (open or
\* keepalive) is at most lease + grace old.
C13_ValidIffFreshAsStated ==
    \A id \in LeaseIdArgs :
        Valid(id) <=> /\ s_session.state # SESSION_STATE_NONE
                      /\ s_session.session_id = id
                      /\ ka_age <= Deadline

\* C13 amended: is_valid(id) holds exactly when the session is LIVE and id is
\* its id.  An id becomes valid only by the open that issues it or by an
\* accepted keepalive(id); it stops being valid only when check_expiry marks
\* the session STALE, on disconnect (force_expire), or when an open replaces
\* the session.  check_expiry decides to mark it STALE exactly when it finds
\* a LIVE session whose last refresh is more than lease + grace old, so past
\* the deadline is_valid(id) stays true until check_expiry next runs.
C13_ValidIffLiveCurrent ==
    /\ [](\A id \in LeaseIdArgs :
            Valid(id) <=> (s_session.state = SESSION_STATE_LIVE /\ s_session.session_id = id))
    /\ [][/\ CheckExpiry =>
               ((expiry_pc' = "expired") <=>
                   (s_session.state = SESSION_STATE_LIVE /\ ka_age > Deadline))
          /\ MarkStale => \A id \in LeaseIdArgs : ~ValidNext(id)
          /\ \A id \in LeaseIdArgs :
               /\ (Valid(id) /\ ~ValidNext(id)) =>
                       \/ MarkStale
                       \/ Disconnect
                       \/ \E new_id \in LeaseIds \ {id} : CmdOpenSession(new_id)
               /\ (~Valid(id) /\ ValidNext(id)) =>
                       \/ CmdOpenSession(id)
                       \/ CmdKeepalive(id) /\ last'.ret = ESP_OK]_vars

\* C13 witness: the lease ran out, check_expiry has not run since, and the
\* id is still valid
C13_Witness ==
    /\ s_session.state = SESSION_STATE_LIVE
    /\ s_session.session_id \in LeaseIds
    /\ Valid(s_session.session_id)
    /\ ka_age > Deadline
    /\ expiry_pc = "idle"
    /\ last.op = "KEEPALIVE"
    /\ last.ret = ESP_OK

\* C14: a session whose last accepted refresh (open or keepalive) is at
\* most lease + grace old is never STALE, whatever the interleaving of the
\* telemetry task's check_expiry with the transport task's open and keepalive.
C14_FreshNeverStale ==
    (s_session.state = SESSION_STATE_STALE /\ s_session.session_id # 0) => ka_age > Deadline

\* C15: a KEEPALIVE whose id is not the id of an existing session is
\* rejected and leaves the session record and the age of its last refresh as
\* they were; a KEEPALIVE with the id of the existing session is accepted,
\* restarts the age at 0 and leaves the session LIVE, reviving it if STALE.
C15_KeepaliveMatchesId ==
    [][\A id \in LeaseIdArgs :
          (last'.op = "KEEPALIVE" /\ CmdKeepalive(id)) =>
            IF s_session.state # SESSION_STATE_NONE /\ s_session.session_id = id
            THEN /\ last'.ret = ESP_OK
                 /\ last'.status = CMD_STATUS_OK
                 /\ ka_age' = 0
                 /\ s_session' = [s_session EXCEPT !.state = SESSION_STATE_LIVE]
            ELSE /\ last'.ret # ESP_OK
                 /\ last'.status = CMD_STATUS_REJECTED_POLICY
                 /\ UNCHANGED <<s_session, ka_age>>]_vars

\* C15 witness: a KEEPALIVE has just revived a session that check_expiry had
\* marked STALE (the alarm bit of that expiry is still set)
C15_Witness ==
    /\ last.op = "KEEPALIVE"
    /\ last.ret = ESP_OK
    /\ s_session.state = SESSION_STATE_LIVE
    /\ s_session.session_id \in LeaseIds
    /\ ka_age = 0
    /\ Bit(s_alarm_bits, ALARM_BIT_HMI_NOT_LIVE_POS) = 1

\* the session id in the body of an OPEN_SESSION acknowledgment
AckSessionId(ack) == FromLE(SubSeq(ack.body, 1, 4))

\* C16: at most one session id is valid in any reachable state; every
\* OPEN_SESSION is accepted and returns a nonzero id, after which the session
\* is LIVE with that id, freshly refreshed, the id is valid and every other
\* id, the one of a session it replaced included, is not.
C16_OpenReplacesSession ==
    /\ [](\A a, b \in LeaseIdArgs : (Valid(a) /\ Valid(b)) => a = b)
    /\ [][\A draws \in RandomDraws :
            (last'.op = "OPEN_SESSION" /\ CmdOpenSession(session_mgr_open_id(draws))) =>
              LET id == AckSessionId(last')
              IN  /\ last'.status = CMD_STATUS_OK
                  /\ id # 0
                  /\ id \in { draws[i] : i \in DOMAIN draws }
                  /\ s_session' = [state |-> SESSION_STATE_LIVE, session_id |-> id]
                  /\ ka_age' = 0
                  /\ ValidNext(id)
                  /\ \A other \in LeaseIdArgs \ {id} : ~ValidNext(other)]_vars

\* C16 witness: an OPEN_SESSION has just issued the second id after an
\* earlier session had expired (the alarm bit of that expiry is still set);
\* the first id is not valid
C16_Witness ==
    /\ last.op = "OPEN_SESSION"
    /\ AckSessionId(last) = MaxSessionId + 1
    /\ s_session = [state |-> SESSION_STATE_LIVE, session_id |-> MaxSessionId + 1]
    /\ Valid(MaxSessionId + 1)
    /\ ~Valid(1)
    /\ ka_age = 0
    /\ Bit(s_alarm_bits, ALARM_BIT_HMI_NOT_LIVE_POS) = 1

\* the last command was an accepted open or keepalive, so the session was
\* live after it
WasLive == last.op \in {"OPEN_SESSION", "KEEPALIVE"} /\ last.ret = ESP_OK

\* the alarm bits an iteration of the telemetry task started now leaves
AlarmAfterTelemetry ==
    hmi_alarm_update(s_alarm_bits, session_mgr_check_expiry(s_session, ka_age).expired,
                     session_mgr_is_live(s_session))

\* C17: whenever the session has stopped being live since the last accepted
\* open or keepalive, by expiry or by force_expire on disconnect, a telemetry
\* iteration leaves the HMI_NOT_LIVE alarm bit set.
C17_NotLiveRaisesAlarm ==
    (Quiet /\ WasLive /\ ~session_mgr_is_live(s_session))
        => Bit(AlarmAfterTelemetry, ALARM_BIT_HMI_NOT_LIVE_POS) = 1

\* the HMI session is not live, or the run has a duration and it has elapsed
RunOver ==
    \/ ~session_mgr_is_live(s_session)
    \/ s_run_duration_ms > 0 /\ run_age >= s_run_duration_ms

\* C18 as stated: a tick in RUNNING that finds the session not live, or the
\* run duration elapsed, leaves the machine in STOPPING.
C18_RunEndsInStoppingAsStated ==
    [][(TickStep /\ s_state = MACHINE_STATE_RUNNING /\ RunOver)
        => s_state' = MACHINE_STATE_STOPPING]_vars

\* C18 amended: a tick in RUNNING that finds the session not live, or the
\* run duration elapsed, leaves the machine in STOPPING unless the same tick
\* finds the E-Stop asserted (then E_STOP) or the door open (then FAULT).
C18_RunEndsInStopping ==
    [][(TickStep /\ s_state = MACHINE_STATE_RUNNING /\ RunOver)
        => s_state' = IF EstopInputLow THEN MACHINE_STATE_E_STOP
                      ELSE IF DoorInputLow THEN MACHINE_STATE_FAULT
                      ELSE MACHINE_STATE_STOPPING]_vars

\* C18 witness: a tick has just taken the machine from RUNNING to STOPPING
\* because the run duration elapsed, the session being live
C18_Witness ==
    /\ last.op = "tick"
    /\ s_state = MACHINE_STATE_STOPPING
    /\ <<MACHINE_STATE_RUNNING, MACHINE_STATE_STOPPING>> \in Transitions
    /\ session_mgr_is_live(s_session)
    /\ s_run_duration_ms > 0
    /\ run_age >= s_run_duration_ms
    /\ s_run_mode = RUN_MODE_NORMAL

\* the outputs set_outputs_safe is there to switch off are off after the step
PowerOutputsOffNext ==
    \A ch \in {RO_MOTOR_START, RO_MAIN_CONTACTOR, RO_HEATER_1, RO_HEATER_2, RO_LN2_VALVE,
                RO_DOOR_LOCK} : Bit(s_relay_state', ch - 1) = 0

\* C19: a STOP_RUN with a valid session in PRECOOL or RUNNING is accepted;
\* with mode ABORT it takes the machine in one transition to IDLE with motor,
\* contactor, heaters, LN2 valve and door lock off, with mode NORMAL to
\* STOPPING.  Any other STOP_RUN is rejected and changes neither state, run
\* parameters nor relays.
C19_StopRunModes ==
    [][\A id \in SessionIdArgs, mode \in StopModes :
          (last'.op = "STOP_RUN" /\ CmdStopRun(id, mode)) =>
            IF ValidSession(id) /\ s_state \in {MACHINE_STATE_PRECOOL, MACHINE_STATE_RUNNING}
            THEN /\ last'.ret = ESP_OK
                 /\ mode = STOP_MODE_ABORT =>
                        /\ s_state' = MACHINE_STATE_IDLE
                        /\ Transitions' = {<<s_state, MACHINE_STATE_IDLE>>}
                        /\ PowerOutputsOffNext
                 /\ mode = STOP_MODE_NORMAL =>
                        /\ s_state' = MACHINE_STATE_STOPPING
                        /\ Transitions' = {<<s_state, MACHINE_STATE_STOPPING>>}
            ELSE /\ last'.ret # ESP_OK
                 /\ UNCHANGED <<machineVars, s_relay_state>>
                 /\ events' = << >>]_vars

\* C19 witness: an ABORT has just taken the machine from RUNNING to IDLE
C19_Witness ==
    /\ last.op = "STOP_RUN"
    /\ last.ret = ESP_OK
    /\ s_state = MACHINE_STATE_IDLE
    /\ Transitions = {<<MACHINE_STATE_RUNNING, MACHINE_STATE_IDLE>>}
    /\ Bit(s_relay_state, RO_MAIN_CONTACTOR - 1) = 0

\* C20: the machine enters SERVICE only from IDLE and only by an accepted
\* ENABLE_SERVICE_MODE; ENABLE_SERVICE_MODE is accepted exactly with a valid
\* session in IDLE and DISABLE_SERVICE_MODE exactly with a valid session in
\* SERVICE; an accepted DISABLE_SERVICE_MODE leaves the relay byte 0 and the
\* machine in IDLE; a rejected one of either changes neither state nor relays.
C20_ServiceEntryAndExit ==
    [][/\ (s_state' = MACHINE_STATE_SERVICE /\ s_state # MACHINE_STATE_SERVICE) =>
            /\ s_state = MACHINE_STATE_IDLE
            /\ last'.op = "ENABLE_SERVICE_MODE"
            /\ last'.ret = ESP_OK
       /\ \A id \in SessionIdArgs :
            /\ (last'.op = "ENABLE_SERVICE_MODE" /\ CmdEnableService(id)) =>
                  /\ last'.ret = ESP_OK <=> (ValidSession(id) /\ s_state = MACHINE_STATE_IDLE)
                  /\ last'.ret = ESP_OK => s_state' = MACHINE_STATE_SERVICE
                  /\ last'.ret # ESP_OK => UNCHANGED <<machineVars, s_relay_state>>
            /\ (last'.op = "DISABLE_SERVICE_MODE" /\ CmdDisableService(id)) =>
                  /\ last'.ret = ESP_OK <=> (ValidSession(id) /\ s_state = MACHINE_STATE_SERVICE)
                  /\ last'.ret = ESP_OK => (s_state' = MACHINE_STATE_IDLE /\ s_relay_state' = 0)
                  /\ last'.ret # ESP_OK => UNCHANGED <<machineVars, s_relay_state>>]_vars

\* C20 witness: a DISABLE_SERVICE_MODE has just returned the machine from
\* SERVICE to IDLE with every relay off
C20_Witness ==
    /\ last.op = "DISABLE_SERVICE_MODE"
    /\ last.ret = ESP_OK
    /\ s_state = MACHINE_STATE_IDLE
    /\ Transitions = {<<MACHINE_STATE_SERVICE, MACHINE_STATE_IDLE>>}
    /\ s_relay_state = 0

(* ---------------- C21 ---------------- *)

\* f is a command frame: it parses, its type is COMMAND and its payload holds
\* a command header
IsCommandFrame(f) ==
    LET h == wire_parse_frame(f)
    IN  h.ok /\ h.msg_type = MSG_TYPE_COMMAND /\ h.payload_len >= 4

\* sent is one acknowledgment frame carrying the sequence number and the
\* command id of the command frame f
AckFor(f, sent) ==
    /\ Len(sent) = 1
    /\ LET a == wire_parse_frame(sent[1].frame)
           h == wire_parse_frame(f)
       IN  /\ a.ok
           /\ a.msg_type = MSG_TYPE_COMMAND_ACK
           /\ FromLE(SubSeq(a.payload, 1, 2)) = h.seq
           /\ FromLE(SubSeq(a.payload, 3, 4)) = FromLE(SubSeq(h.payload, 1, 2))

GatedCommands ==
    {CMD_KEEPALIVE, CMD_START_RUN, CMD_STOP_RUN, CMD_ENABLE_SERVICE_MODE, CMD_DISABLE_SERVICE_MODE,
     CMD_CLEAR_ESTOP, CMD_CLEAR_LATCHED_ALARMS}

\* command id and session id of a command frame
FrameCmdId(f) == FromLE(SubSeq(wire_parse_frame(f).payload, 1, 2))

FrameSessionId(f) == FromLE(SubSeq(wire_parse_frame(f).payload, 5, 8))

\* the step handles a frame of command cmd_id that holds a session id
HandlesGated(cmd_id) ==
    /\ s_tx_seq' # s_tx_seq
    /\ IsCommandFrame(rx')
    /\ FrameCmdId(rx') = cmd_id
    /\ wire_parse_frame(rx').payload_len >= 4 + BodyLen(cmd_id)

\* sent is one acknowledgment frame with status REJECTED_POLICY, detail 0x0001
RejectedInvalidSession(sent) ==
    /\ Len(sent) = 1
    /\ LET a == wire_parse_frame(sent[1].frame)
       IN  a.payload[5] = CMD_STATUS_REJECTED_POLICY /\ FromLE(SubSeq(a.payload, 6, 7)) = 1

\* C22 as stated: every session-gated command, KEEPALIVE included, whose
\* session id is not valid (no LIVE session with that id) is acknowledged
\* REJECTED_POLICY / 0x0001 and changes neither machine state nor relays
C22_InvalidSessionRejectedAsStated ==
    [][\A cmd_id \in GatedCommands :
          (HandlesGated(cmd_id) /\ ~ValidSession(FrameSessionId(rx'))) =>
              /\ RejectedInvalidSession(tx')
              /\ UNCHANGED <<machineVars, s_relay_state>>]_vars

\* C22: START_RUN, STOP_RUN, enable / disable service mode, CLEAR_ESTOP and
\* CLEAR_LATCHED_ALARMS with a session id that is not valid, and KEEPALIVE
\* with an id that is not the id of the current session (LIVE or STALE) or
\* with no session, are acknowledged REJECTED_POLICY with detail 0x0001 and
\* change neither machine state nor relay outputs
C22_InvalidSessionRejected ==
    [][\A cmd_id \in GatedCommands :
          (/\ HandlesGated(cmd_id)
           /\ IF cmd_id = CMD_KEEPALIVE
              THEN s_session.state = SESSION_STATE_NONE
                   \/ s_session.session_id # FrameSessionId(rx')
              ELSE ~ValidSession(FrameSessionId(rx'))) =>
              /\ RejectedInvalidSession(tx')
              /\ UNCHANGED <<machineVars, s_relay_state>>]_vars

\* a STOP_RUN carrying the id of a session whose lease ran out was rejected
C22_Witness ==
    /\ IsCommandFrame(rx)
    /\ FrameCmdId(rx) = CMD_STOP_RUN
    /\ s_session = [state |-> SESSION_STATE_STALE, session_id |-> FrameSessionId(rx)]
    /\ RejectedInvalidSession(tx)

(* ---------------- C23 ---------------- *)

\* SET_SV for controller 1, 25.0 C (register value 250)
SetSv250 == CommandFrame(7, CMD_SET_SV, << 1 >> \o BytesLE(250, 2))

\* bus results of a SET_SV whose write and verifying read both succeed and
\* whose read-back is five tenths below the value written (250 written, 245 read)
VerifyMismatch == { bus \in BusResults : bus.write_err = MODBUS_OK /\ bus.read_err = MODBUS_OK
                                         /\ bus.drift = -5 }

\* sent is one acknowledgment frame with status HW_FAULT and an optional body
\* ending in the little-endian bytes of value
HwFaultWith(sent, value) ==
    /\ Len(sent) = 1
    /\ LET a == wire_parse_frame(sent[1].frame)
       IN  /\ a.payload[5] = CMD_STATUS_HW_FAULT
           /\ a.payload_len >= 9
           /\ SubSeq(a.payload, a.payload_len - 1, a.payload_len) = BytesLE(value, 2)

\* C23: a SET_SV whose bus write succeeds and whose read-back differs from the
\* value written by more than the tolerance (250 written, 245 read back) is
\* acknowledged HW_FAULT with the read-back value in the optional body
C23_SetSvMismatchIsHwFault ==
    [][\A bus \in VerifyMismatch, new_id \in SessionIds :
          WriteCommand(SetSv250, new_id, bus) => HwFaultWith(tx', 245)]_vars

(* ---------------- C24 ---------------- *)

\* a tick finds the machine in PRECOOL more than PRECOOL_TIMEOUT_MS after it
\* entered the state
PrecoolTimedOut == TickStep /\ s_state = MACHINE_STATE_PRECOOL /\ state_age > PRECOOL_TIMEOUT_MS

\* the state PRECOOL advances to
AfterPrecool ==
    IF s_run_mode = RUN_MODE_PRECOOL_ONLY THEN MACHINE_STATE_STOPPING ELSE MACHINE_STATE_RUNNING

\* the step emits the state-changed event old = PRECOOL, new = the state reached
PrecoolLeftEvent ==
    \E i \in DOMAIN events' :
        /\ events'[i][1] = EVENT_STATE_CHANGED
        /\ events'[i][3] = <<MACHINE_STATE_PRECOOL, s_state'>>

\* C24 as stated: the tick that finds PRECOOL older than 300 s advances the
\* machine to RUNNING (to STOPPING for a PRECOOL-only run) whatever the
\* chamber reading, with a state-changed event old = PRECOOL, new = that state
C24_PrecoolTimeoutAsStated ==
    [][PrecoolTimedOut => (s_state' = AfterPrecool /\ PrecoolLeftEvent)]_vars

\* C24: the tick that finds PRECOOL older than 300 s takes the machine out of
\* PRECOOL whatever the chamber reading: to E_STOP if the E-Stop input is
\* asserted, else to FAULT if the door is open, else to RUNNING (to STOPPING
\* for a PRECOOL-only run); the step emits the state-changed event with
\* old = PRECOOL and new = the state reached; and the machine does not remain
\* in PRECOOL forever
C24_PrecoolTimeout ==
    /\ [][PrecoolTimedOut =>
             /\ s_state' = IF EstopInputLow THEN MACHINE_STATE_E_STOP
                           ELSE IF DoorInputLow THEN MACHINE_STATE_FAULT
                           ELSE AfterPrecool
             /\ PrecoolLeftEvent]_vars
    /\ (s_state = MACHINE_STATE_PRECOOL) ~> (s_state # MACHINE_STATE_PRECOOL)

\* a tick has just taken the machine from PRECOOL to RUNNING although the
\* chamber controller gives no valid reading
C24_Witness ==
    /\ last.op = "tick"
    /\ s_state = MACHINE_STATE_RUNNING
    /\ <<MACHINE_STATE_PRECOOL, MACHINE_STATE_RUNNING>> \in Transitions
    /\ ~get_chamber_temp(s_controllers).valid

(* ---------------- C25 ---------------- *)

\* the state a tick leaves a machine in STOPPING in: E_STOP if the E-Stop
\* input is asserted, else IDLE once the soak period is over, else STOPPING
AfterStopping ==
    IF EstopInputLow THEN MACHINE_STATE_E_STOP
    ELSE IF state_age > STOPPING_SOAK_TIME_MS THEN MACHINE_STATE_IDLE
    ELSE MACHINE_STATE_STOPPING

\* C25: a tick in STOPPING takes the machine to IDLE once more than
\* STOPPING_SOAK_TIME_MS (30 s) have passed since STOPPING was entered, unless
\* the E-Stop input is asserted, and leaves it in STOPPING before; no step
\* goes from STOPPING to IDLE unless it is a tick later than 30 s after
\* entry; and the machine does not remain in STOPPING forever
C25_StoppingSoak ==
    /\ [][(TickStep /\ s_state = MACHINE_STATE_STOPPING) => s_state' = AfterStopping]_vars
    /\ [][(s_state = MACHINE_STATE_STOPPING /\ s_state' = MACHINE_STATE_IDLE)
             => (TickStep /\ state_age > STOPPING_SOAK_TIME_MS)]_vars
    /\ (s_state = MACHINE_STATE_STOPPING) ~> (s_state # MACHINE_STATE_STOPPING)

\* a tick has just taken the machine from STOPPING to IDLE after the soak
C25_Witness ==
    /\ last.op = "tick"
    /\ s_state = MACHINE_STATE_IDLE
    /\ <<MACHINE_STATE_STOPPING, MACHINE_STATE_IDLE>> \in Transitions

(* ---------------- C26 ---------------- *)

\* the states state_task has no case for
RestingStates == {MACHINE_STATE_IDLE, MACHINE_STATE_FAULT, MACHINE_STATE_SERVICE}

\* the step is a call that leaves E_STOP other than through the tick: an
\* accepted clear_estop, or machine_state_force_safe
EstopLeftByCall ==
    \/ last'.op = "CLEAR_ESTOP" /\ last'.ret = ESP_OK /\ s_state' = MACHINE_STATE_IDLE
    \/ last'.op = "force_safe" /\ s_state' = MACHINE_STATE_FAULT

\* C26: a tick in IDLE, FAULT or SERVICE, whenever it comes, leaves the state
\* as it is unless the E-Stop input is asserted, and then goes to E_STOP; a
\* tick in E_STOP stays in E_STOP whether the input is asserted or released;
\* and E_STOP is left only by an accepted clear_estop (or by the force_safe
\* call, which goes to FAULT)
C26_NoTimeDrivenTransitions ==
    /\ [][(TickStep /\ s_state \in RestingStates)
             => s_state' = IF EstopInputLow THEN MACHINE_STATE_E_STOP ELSE s_state]_vars
    /\ [][(TickStep /\ s_state = MACHINE_STATE_E_STOP) => s_state' = MACHINE_STATE_E_STOP]_vars
    /\ [][(s_state = MACHINE_STATE_E_STOP /\ s_state' # MACHINE_STATE_E_STOP) => EstopLeftByCall]_vars

\* a tick has just left the machine in E_STOP with the E-Stop input released
C26_Witness ==
    /\ last.op = "tick"
    /\ s_state = MACHINE_STATE_E_STOP
    /\ ~EstopInputLow
    /\ Transitions = {}

(* ---------------- C27 ---------------- *)

\* the entries of effects from position t + 1 on follow the order of a
\* transition to new_state: the relay calls of its entry action, then the
\* state-change callback, then the state-changed event, then only events
EntryThenCallbackThenEvents(t, new_state) ==
    LET n == Len(EntryCalls(new_state))
    IN  /\ Len(effects) >= t + n + 2
        /\ \A k \in 1..n :
              /\ effects[t + k].call = "relay_ctrl_set"
              /\ <<effects[t + k].a, effects[t + k].b>> = EntryCalls(new_state)[k]
        /\ effects[t + n + 1].call = "state_callback"
        /\ effects[t + n + 2].call = "emit_event"
        /\ effects[t + n + 2].a = EVENT_STATE_CHANGED
        /\ \A j \in (t + n + 3)..Len(effects) : effects[j].call = "emit_event"

\* C27: in every operation, each event is emitted by a transition, after all
\* relay calls of the entry action of the new state and after the
\* state-change callback; every event is emitted with the outputs as the
\* entry action left them
C27_EventsAfterEntryAndCallback ==
    /\ \A t \in DOMAIN effects :
          effects[t].call = "transition_to" => EntryThenCallbackThenEvents(t, effects[t].b)
    /\ \A e \in DOMAIN effects :
          effects[e].call = "emit_event" =>
              /\ \E t \in 1..(e - 1) : effects[t].call = "transition_to"
              /\ effects[e].out = s_relay_state
    /\ Len(events) = Cardinality({e \in DOMAIN effects : effects[e].call = "emit_event"})

\* an operation has just taken the machine from RUNNING to E_STOP: six relay
\* calls, the callback, then state-changed, ESTOP_ASSERTED and RUN_ABORTED
C27_Witness ==
    /\ s_state = MACHINE_STATE_E_STOP
    /\ Len(effects) = 11
    /\ effects[1] = Effect("transition_to", MACHINE_STATE_RUNNING, MACHINE_STATE_E_STOP, effects[1].out)
    /\ effects[11].a = EVENT_RUN_ABORTED

(* ---------------- C28 ---------------- *)

\* output byte out has the main contactor off and motor-start on
ContactorOffMotorOn(out) == Bit(out, RO_MAIN_CONTACTOR - 1) = 0 /\ Bit(out, RO_MOTOR_START - 1) = 1

RelaysOn == { ch \in 1..8 : Bit(s_relay_state, ch - 1) = 1 }

\* the channels the PRECOOL entry action switches on
PrecoolOutputs == {RO_DOOR_LOCK, RO_LN2_VALVE, RO_HEATER_1, RO_HEATER_2, RO_MAIN_CONTACTOR}

ReturnsBusy(task) ==
    /\ mb_pc[task].at = "take"
    /\ mb_pc'[task].at = "idle"
    /\ last'.op = task
    /\ last'.status = MODBUS_ERR_BUSY

\* the step puts a request of the task on the serial line
Transmits(task) == \E r \in uart' \ uart : r.task = task

\* C30: at most one request is on the serial line awaiting the end of its
\* response wait, and it belongs to the holder of the bus mutex; a request
\* is transmitted only when no other transaction is in flight; a task that
\* has been blocked on the mutex for 500 ms with the mutex still held
\* returns MODBUS_ERR_BUSY, and a call returns MODBUS_ERR_BUSY only then
\* and without any request of its own having gone out
C30_OneTransactionInFlight ==
    /\ [](Cardinality(uart) <= 1 /\ \A r \in uart : s_bus_mutex = r.task)
    /\ [][\A task \in BusTasks : Transmits(task) => uart = {}]_vars
    /\ [][\A task \in BusTasks :
            ReturnsBusy(task) => /\ mb_wait[task] >= BUS_MUTEX_TIMEOUT_MS
                                 /\ s_bus_mutex \notin {"free", task}
                                 /\ uart' = uart
                                 /\ \A r \in uart : r.task # task]_vars
    /\ [][\A task \in BusTasks :
            (/\ mb_pc[task].at = "take"
             /\ mb_wait[task] >= BUS_MUTEX_TIMEOUT_MS
             /\ s_bus_mutex # "free"
             /\ mb_pc'[task] # mb_pc[task]) => ReturnsBusy(task)]_vars

\* the dispatcher's call has just returned MODBUS_ERR_BUSY while the
\* poller's read is on the line
C30_Witness ==
    /\ last.op = "nimble_host"
    /\ last.status = MODBUS_ERR_BUSY
    /\ uart = {[task |-> "poll_task", fc |-> MODBUS_FC_READ_HOLDING]}

(* ----------------------- C31 ----------------------- *)

PollOps == {"poll_task", "pid_controller_force_poll"}

\* the latest poll was a successful poll of a controller, which is ONLINE with no error counted
RecoveredByPoll ==
    (last.op \in PollOps /\ last.ret = ESP_OK) =>
        /\ s_controllers[last.cmd].state = PID_STATE_ONLINE
        /\ s_controllers[last.cmd].error_count = 0

\* C31 as stated: after three failed polls in a row the record is OFFLINE whatever its state
\* was before, and a successful poll returns it to ONLINE with the error count 0.
C31_OfflineAfterThreeAsStated ==
    /\ \A a \in 1..PID_CONFIG_COUNT : poll_fails[a] >= 3 => s_controllers[a].state = PID_STATE_OFFLINE
    /\ RecoveredByPoll

\* C31: once a controller has failed three polls in a row, a record that was ONLINE, STALE or
\* OFFLINE is OFFLINE and a record that was UNKNOWN (never polled successfully) stays UNKNOWN;
\* a successful poll makes the record ONLINE with the error count 0.
C31_OfflineAfterThree ==
    [][/\ \A a \in 1..PID_CONFIG_COUNT :
            poll_fails'[a] >= 3 =>
                s_controllers'[a].state = IF s_controllers[a].state = PID_STATE_UNKNOWN
                                          THEN PID_STATE_UNKNOWN
                                          ELSE PID_STATE_OFFLINE
       /\ RecoveredByPoll']_vars

C31_Witness ==
    /\ poll_fails[1] = 3 /\ s_controllers[1].state = PID_STATE_OFFLINE
    /\ poll_fails[2] = 3 /\ s_controllers[2].state = PID_STATE_UNKNOWN
    /\ last.op = "poll_task" /\ last.ret = ESP_OK /\ last.cmd = 3
    /\ s_controllers[3].state = PID_STATE_ONLINE

(* ----------------------- C32 ----------------------- *)

\* C32: poll_task visits the controllers in round-robin order: each iteration polls the
\* controller after the one polled before, and a window of PID_CONFIG_COUNT consecutive
\* iterations holds every controller; forced polls do not move the order.
C32_RoundRobin ==
    /\ \A i \in 1..(Len(poll_log) - 1) : poll_log[i + 1] = (poll_log[i] + 1) % PID_CONFIG_COUNT
    /\ poll_log # << >> => current_idx = (poll_log[Len(poll_log)] + 1) % PID_CONFIG_COUNT
    /\ Len(poll_log) = PID_CONFIG_COUNT =>
            \A c \in 0..(PID_CONFIG_COUNT - 1) : \E i \in 1..Len(poll_log) : poll_log[i] = c

C32_Witness ==
    /\ Len(poll_log) = PID_CONFIG_COUNT
    /\ poll_log[1] = 1
    /\ last.op = "pid_controller_force_poll"
    /\ last.ret = ESP_OK

(* ----------------------- C33 ----------------------- *)

\* the byte with the bits of mask cleared
OutsideMask(byte, mask) == MaskedBits(byte, mask, 0, 8)

\* C33: a relay call that succeeds leaves the relay byte equal to the byte before it with the
\* call's own bits replaced (set_mask: (current & ~mask) | (values & mask); mask 0 changes
\* nothing), so the bits outside its mask, which may hold the other task's change, stay.
C33_AtomicMaskedUpdates ==
    [][\A task \in RelayTasks :
            /\ (relay_pc[task].at = "write" /\ relay_pc'[task].at = "idle") =>
                    /\ OutsideMask(s_relay_state', relay_pc[task].mask) = OutsideMask(s_relay_state, relay_pc[task].mask)
                    /\ last'.ret = ESP_OK =>
                            s_relay_state' = MaskedBits(s_relay_state, relay_pc[task].mask, relay_pc[task].new_state, 8)
            /\ (last'.op = task /\ last'.cmd = 0) => s_relay_state' = s_relay_state]_vars

\* a set_mask(0x0F, 0x05) call that ran alone on 0xF0 and left 0xF5
C33_MaskExample ==
    /\ s_relay_state = 245
    /\ last.op = "dispatcher" /\ last.cmd = 15 /\ last.ret = ESP_OK

(* ----------------------- C34 ----------------------- *)

\* C34: parsing the frame that wire_build_frame made from a message type, a sequence number
\* and a payload of at most 512 bytes succeeds and gives back the message type, the sequence
\* number, the payload length and the payload.
C34_RoundTrip ==
    (wire_buf.made = "built" /\ Len(wire_buf.payload) <= WIRE_MAX_PAYLOAD /\ wire_hdr # NoHeader) =>
        /\ wire_hdr.ok
        /\ wire_hdr.msg_type = wire_buf.msg_type
        /\ wire_hdr.seq = wire_buf.seq
        /\ wire_hdr.payload_len = Len(wire_buf.payload)
        /\ wire_hdr.payload = wire_buf.payload

C34_Witness ==
    /\ wire_buf.made = "built"
    /\ Len(wire_buf.payload) = WIRE_MAX_PAYLOAD
    /\ Len(wire_buf.bytes) = WIRE_MAX_FRAME_SIZE
    /\ wire_hdr.ok
    /\ wire_hdr.payload = wire_buf.payload

(* ----------------------- C35 ----------------------- *)

\* version 1, declared length at most 512, total length = header + declared length + CRC,
\* and the two bytes after the payload are the CRC of the bytes before them
WellFormed(b) ==
    /\ Len(b) >= WIRE_HEADER_SIZE + WIRE_CRC_SIZE
    /\ b[1] = WIRE_PROTO_VERSION
    /\ FromLE(SubSeq(b, 5, 6)) <= WIRE_MAX_PAYLOAD
    /\ Len(b) = WIRE_HEADER_SIZE + FromLE(SubSeq(b, 5, 6)) + WIRE_CRC_SIZE
    /\ FromLE(SubSeq(b, Len(b) - 1, Len(b))) = wire_crc16(SubSeq(b, 1, Len(b) - WIRE_CRC_SIZE))

\* C35: wire_parse_frame accepts a buffer if and only if the buffer is well formed: version 1,
\* declared payload length at most 512, total length equal to header + declared length + CRC
\* (longer and shorter buffers refused), trailing CRC matching.
C35_AcceptsIffWellFormed ==
    (wire_buf.made # "empty" /\ wire_hdr # NoHeader) => (wire_hdr.ok <=> WellFormed(wire_buf.bytes))

(* ----------------------- C36 ----------------------- *)

\* C36: wire_parse_frame refuses a built frame in which one bit was flipped, wherever the bit is.
C36_SingleBitFlipRefused ==
    (wire_buf.made = "flipped" /\ wire_hdr # NoHeader) => ~wire_hdr.ok

(* ----------------------- C37 ----------------------- *)

\* the step is the part of a call under the state mutex, returning ESP_OK
AcceptedUnderMutex == api_pc.at = "take" /\ api_pc'.at = "idle" /\ last'.ret = ESP_OK

\* C37: a state-changing call decides under the state mutex on values read under the state
\* mutex: when the part under the mutex accepts the call, the session the call named is valid.
C37_DecidedOnCurrentInputs ==
    [][AcceptedUnderMutex => session_mgr_is_valid(s_session, api_pc.session_id)]_vars

(* ----------------------- C38 ----------------------- *)

HmiLive == session_mgr_is_live(s_session)

\* the chamber temperature is valid and within the tolerance of the target
TargetReached ==
    LET t == get_chamber_temp(s_controllers)
        d == ToInt16(t.temp_x10 - s_target_temp_x10)
    IN  t.valid /\ (IF d < 0 THEN ToInt16(-d) ELSE d) <= PRECOOL_TEMP_TOLERANCE_X10

\* C38: the session ceasing to be live changes no machine state; a machine in PRECOOL with
\* no live session leaves PRECOOL only by a tick, and, E-Stop and door apart, only when the
\* target or the 300 s timeout is reached, then for RUNNING (a full run, motor-start on) or
\* STOPPING (a PRECOOL-only run); a tick that finds RUNNING with no live session, the
\* E-Stop released and the door closed moves to STOPPING.
C38_PrecoolOutlivesHmi ==
    [][/\ (HmiLive /\ ~HmiLive') => s_state' = s_state
       /\ (s_state = MACHINE_STATE_PRECOOL /\ ~HmiLive /\ s_state' # MACHINE_STATE_PRECOOL) =>
            /\ TickStep
            /\ s_state' = MACHINE_STATE_E_STOP => check_estop_active(s_di_bits)
            /\ s_state' = MACHINE_STATE_FAULT => check_door_open(s_di_bits)
            /\ s_state' \notin {MACHINE_STATE_E_STOP, MACHINE_STATE_FAULT} =>
                    /\ TargetReached \/ state_age > PRECOOL_TIMEOUT_MS
                    /\ s_state' = IF s_run_mode = RUN_MODE_PRECOOL_ONLY
                                  THEN MACHINE_STATE_STOPPING ELSE MACHINE_STATE_RUNNING
                    /\ s_state' = MACHINE_STATE_RUNNING => Bit(s_relay_state', RO_MOTOR_START - 1) = 1
       /\ (TickStep /\ s_state = MACHINE_STATE_RUNNING /\ ~HmiLive
             /\ ~check_estop_active(s_di_bits) /\ ~check_door_open(s_di_bits)) =>
            s_state' = MACHINE_STATE_STOPPING]_vars

\* RUNNING just entered from PRECOOL by a tick, motor-start on, with no live session
C38_Witness ==
    /\ s_state = MACHINE_STATE_RUNNING
    /\ ~HmiLive
    /\ Bit(s_relay_state, RO_MOTOR_START - 1) = 1
    /\ last.op = "tick"
    /\ \E i \in 1..Len(events) :
            events[i] = emit_state_change_event(MACHINE_STATE_PRECOOL, MACHINE_STATE_RUNNING)

(* ----------------------- C39 ----------------------- *)

\* the states of a run, from RUN_STARTED on
RunStates == {MACHINE_STATE_PRECOOL, MACHINE_STATE_RUNNING, MACHINE_STATE_STOPPING}

\* the number of RUN_STOPPED and RUN_ABORTED events in an operation's event list
RunEnds(evs) ==
    Cardinality({i \in DOMAIN evs : evs[i][1] \in {EVENT_RUN_STOPPED, EVENT_RUN_ABORTED}})

\* C39: a step that changes the machine state emits exactly one RUN_STOPPED or RUN_ABORTED
\* event when it takes the machine out of a run (PRECOOL, RUNNING or STOPPING to any other
\* state), and none otherwise.
C39_EveryRunEndReported ==
    [][s_state' # s_state =>
            RunEnds(events') = IF s_state \in RunStates /\ s_state' \notin RunStates THEN 1 ELSE 0]_vars

(* ----------------------- C40 ----------------------- *)

Mutexes == {"s_mutex", "s_data_mutex", "s_bus_mutex"}

\* the mutexes a task holds
Held(task) == {m \in Mutexes : Holder(m) = task}

\* the task is in xSemaphoreTake
AtTake(task) == lock_pc[task].i # 0 /\ lock_pc[task].path[lock_pc[task].i].op # "give"

\* the mutex of the call the task is at
Wanted(task) == lock_pc[task].path[lock_pc[task].i].mutex

\* a task outside its operations holds no mutex, and a task takes a mutex while holding
\* another only as s_data_mutex inside s_mutex
LockDiscipline ==
    \A task \in LockTasks :
        /\ lock_pc[task].i = 0 => Held(task) = {}
        /\ AtTake(task) => \A h \in Held(task) : <<h, Wanted(task)>> = <<"s_mutex", "s_data_mutex">>

\* no set of tasks each waiting without timeout for a mutex held inside the set
NoWaitCycle ==
    \A S \in SUBSET LockTasks :
        S # {} => \E task \in S : ~(AtTake(task) /\ lock_pc[task].path[lock_pc[task].i].op = "take"
                                    /\ Holder(Wanted(task)) \in S)

\* the holder of a mutex after the step
HolderAfter(mutex) ==
    CASE mutex = "s_mutex" -> s_mutex'
      [] mutex = "s_data_mutex" -> s_data_mutex'
      [] OTHER -> s_bus_mutex'

\* the task's xSemaphoreTake ends in this step
TakeEnds(task) == AtTake(task) /\ lock_pc'[task].i # lock_pc[task].i

\* the take that ends was on the bus mutex, had waited 500 ms and came back without it
TimedOut(task) ==
    /\ lock_pc[task].path[lock_pc[task].i].op = "timed_take"
    /\ lock_pc[task].waited >= BUS_MUTEX_TIMEOUT_MS
    /\ Holder(Wanted(task)) \notin {"free", task}
    /\ lock_pc'[task].i \in {0, lock_pc[task].path[lock_pc[task].i].on_busy}

\* every operation a task has entered returns
EveryCallReturns == \A task \in LockTasks : (lock_pc[task].i # 0) ~> (lock_pc[task].i = 0)

\* C40 as stated: the mutexes are taken in one order and given on every return path, no
\* tasks wait for each other in a cycle, every xSemaphoreTake ends with the mutex obtained,
\* and every operation returns.
C40_DeadlockFreeAsStated ==
    /\ [](LockDiscipline /\ NoWaitCycle)
    /\ [][\A task \in LockTasks : TakeEnds(task) => HolderAfter(Wanted(task)) = task]_vars
    /\ EveryCallReturns

\* C40: the mutexes are taken in one order (s_data_mutex inside s_mutex, s_bus_mutex alone)
\* and given on every return path, no tasks wait for each other in a cycle, every
\* xSemaphoreTake ends with the mutex obtained or, on the bus mutex, after 500 ms blocked
\* with MODBUS_ERR_BUSY, and every operation returns.
C40_DeadlockFree ==
    /\ [](LockDiscipline /\ NoWaitCycle)
    /\ [][\A task \in LockTasks :
            TakeEnds(task) => HolderAfter(Wanted(task)) = task \/ TimedOut(task)]_vars
    /\ EveryCallReturns

\* all three mutexes held, the state task inside both of its own, the host task blocked on
\* the state mutex and the telemetry task on the data mutex
C40_Witness ==
    /\ Held("state_task") = {"s_mutex", "s_data_mutex"}
    /\ s_bus_mutex = "poll_task"
    /\ AtTake("nimble_host") /\ Wanted("nimble_host") = "s_mutex"
    /\ AtTake("telemetry_task") /\ Wanted("telemetry_task") = "s_data_mutex"

====
